---- MODULE Spec2Model ----
(***************************************************************************)
(* Call-session mediator of the ec-voice-ai bridge: one carrier (Twilio)   *)
(* media WebSocket coupled to one LLM (OpenAI Realtime) WebSocket.          *)
(*                                                                         *)
(* Every action is one turn of the Node event loop: a socket event         *)
(* handler, a timer callback or the continuation of an await, together     *)
(* with the microtasks it triggers.  `lastEvent' names the turn just run   *)
(* and `emitted' lists, in order, the frames that turn wrote to the two    *)
(* sockets.                                                                *)
(***************************************************************************)
EXTENDS Naturals, Sequences, FiniteSets

\* ---------------------------------------------------------------- bounds
MaxCalls == 2          \* tool call ids the LLM may issue in one call
MaxMarks == 2          \* outbound marks the carrier has not yet echoed
TickMs == 400          \* granularity of the passage of time
MaxEntries == 3        \* transcript-bearing LLM events of one call
MaxHead == 4           \* free leading characters of a phone number
MaxFill == 9           \* digits that follow the free head
MaxCallers == 2        \* webhook requests in flight on the one backend client
MaxOrders == 2         \* orders in one backend search response
MaxMargin == 1         \* how far amounts and days range around the limits
MaxText == 2           \* characters of a text injected into carrier XML

\* ------------------------------------------------------ program constants
CooldownMs == 400              \* media-stream.ts:91
SessionUpdatedTimeoutMs == 3000 \* media-stream.ts:187
StabilizeMs == 1200            \* media-stream.ts:194

CallIds == 1..MaxCalls
NoTimer == 0                   \* echoCooldownTimer: null

VARIABLES
  twilioWs,          \* carrier socket readyState: "open" | "closed"
  stopped,           \* a carrier 'stop' frame has been handled
  pc,                \* position of initializeStream
  contextSet,        \* handleMediaStream's closure variable `context' is non-null
  historyCallId,     \* context.historyCallId: "null" | "id"
  isInitialized,     \* context.isInitialized
  isResponseActive,  \* context.isResponseActive
  isEchoCooldown,    \* context.isEchoCooldown
  echoCooldownTimer, \* context.echoCooldownTimer: NoTimer or a timer id
  timers,            \* pending setTimeout(…, 400) callbacks: [id, left]
  initTimer,         \* ms left of the timer initializeStream is waiting on
  ws,                \* OpenAIRealtimeSession.ws: "null" | "set"
  readyState,        \* readyState of the LLM socket created by connect()
  handlers,          \* setupEventHandlers has registered the subscribers
  updPending,        \* LLM side: a session.update is not yet acknowledged
  llmStimulated,     \* LLM side: a response.create has been received
  llmHeardAudio,     \* LLM side: caller audio has been received
  marksPending,      \* carrier side: marks received and not yet echoed
  toolCalls,         \* per call id: "none" | "running" | "done"
  endCalls,          \* conversationHistory.endCall invocations of this call
  responseOpen,      \* LLM side: response.created sent, response.done not yet
  lastEvent,         \* the event-loop turn that ran last
  emitted,           \* frames written during that turn
  \* transcript sink (conversation-history.ts)
  arrivals,          \* transcript-bearing LLM events handled so far
  toolPending,       \* arrival numbers of tool calls still executing
  inflight,          \* arrival numbers of inserts sent and not yet landed
  stored,            \* rows of the sink, in the order the inserts landed
  \* phone normalization (nextengine.ts)
  phonePc,           \* 0: input chosen, 1: normalized, 2: normalized twice
  phoneIn,           \* the string passed to normalizePhoneForSearch
  phoneOut,          \* its result
  phoneOut2,         \* the result of normalizing phoneOut
  statusPhone,       \* the phone check_order_status searched with
  \* webhook and backend client (incoming-call.ts, nextengine.ts)
  tokenInfo,         \* NextEngineService.tokenInfo: "null" | "valid" | "expired"
  hookPc,            \* per request: position of handleIncomingCall
  attempts,          \* per request: search POSTs issued by searchOrders
  lookupOutcome,     \* per request: how the backend lookup ended, or "none"
  customerContext,   \* per request: the context the webhook built
  reply,             \* per request: the response sent to the carrier
  decoded,           \* per request: the context initializeStream decoded
  \* tool dispatcher (tools/index.ts, register-return.ts)
  toolPc,            \* position of executeTool for call id 1
  toolName,          \* event.name
  toolArgs,          \* event.arguments as handleToolCall parsed them
  toolOrder,         \* the order getOrder returned
  eligibility,       \* what checkReturnEligibility returned for it
  backendWrites,     \* update requests posted to the backend
  toolResult,        \* what executeTool resolved to, or that it threw
  toolReplies,       \* texts passed to sendToolResult for call id 1
  callerPhone,       \* context.callerPhone of the call
  lastSearch,        \* params of the latest searchOrders request
  \* carrier XML builders (incoming-call.ts)
  xmlPc,             \* 0: inputs chosen, 1: document built
  xmlBuilder,        \* "transfer" | "hold"
  xmlMessage,        \* the message argument
  xmlNumber,         \* the transferNumber argument
  xmlOut,            \* the document: markup and injected segments
  \* event subscriptions of the LLM session (part_003 on/off/emitEvent)
  subs,              \* eventHandlers.get(event): handlers in push order
  calls,             \* the handlers the latest emitEvent invoked, in order
  dropped,           \* handlers passed to off since they were last added
  emOp,              \* the latest operation and its handler
  \* the sessions of one carrier connection (handleMediaStream)
  sessions,          \* per initializeStream call: its LLM socket, returned?
  handlerCtx,        \* the handler's `context': 0 (null) or a session
  carrier            \* the carrier socket of the connection

medVars == <<twilioWs, stopped, pc, contextSet, historyCallId, isInitialized,
             isResponseActive, isEchoCooldown, echoCooldownTimer, timers,
             initTimer, ws, readyState, handlers, updPending, llmStimulated,
             llmHeardAudio, marksPending, toolCalls, endCalls, responseOpen,
             lastEvent, emitted>>
sinkVars == <<arrivals, toolPending, inflight, stored>>
phoneVars == <<phonePc, phoneIn, phoneOut, phoneOut2, statusPhone>>
hookVars == <<tokenInfo, hookPc, attempts, lookupOutcome, customerContext, reply,
              decoded>>

toolVars == <<toolPc, toolName, toolArgs, toolOrder, eligibility,
              backendWrites, toolResult, toolReplies, callerPhone, lastSearch>>
xmlVars == <<xmlPc, xmlBuilder, xmlMessage, xmlNumber, xmlOut>>

emVars == <<subs, calls, dropped, emOp>>

sessVars == <<sessions, handlerCtx, carrier>>

vars == <<medVars, sinkVars, phoneVars, hookVars, toolVars, xmlVars, emVars,
          sessVars>>

\* ------------------------------------------------------------- helpers
Msg(to, type, id) == [to |-> to, type |-> type, id |-> id]

RECURSIVE Sent(_, _, _)
Sent(s, to, type) ==
  IF s = <<>> THEN 0
  ELSE (IF Head(s).to = to /\ Head(s).type = type THEN 1 ELSE 0)
       + Sent(Tail(s), to, type)

Monus(a, b) == IF a > b THEN a - b ELSE 0

\* ------------------------------------------- OpenAIRealtimeSession (C2)
IsConnected == ws = "set" /\ readyState = "open"

Send(m) == IF ws = "set" /\ readyState = "open" THEN <<m>> ELSE <<>>

SendAudio ==
  IF ~IsConnected THEN <<>> ELSE Send(Msg("llm", "input_audio_buffer.append", 0))

CreateResponse ==
  IF ~IsConnected THEN <<>> ELSE Send(Msg("llm", "response.create", 0))

CancelResponse ==
  IF ~IsConnected THEN <<>> ELSE Send(Msg("llm", "response.cancel", 0))

UpdateSession == Send(Msg("llm", "session.update", 0))

SendToolResult_Unguarded(callId) ==
  <<Msg("llm", "conversation.item.create", callId),
    Msg("llm", "response.create", 0)>>

SendToolResult(callId) ==
  IF ~IsConnected THEN <<>>
  ELSE Send(Msg("llm", "conversation.item.create", callId)) \o CreateResponse

\* ------------------------------------------------ carrier-bound writers
SendAudioToTwilio ==
  IF twilioWs # "open" THEN <<>> ELSE <<Msg("twilio", "media", 0)>>

SendMarkToTwilio_Twice ==
  IF twilioWs # "open" THEN <<>>
  ELSE <<Msg("twilio", "mark", 0), Msg("twilio", "mark", 0)>>

SendMarkToTwilio ==
  IF twilioWs # "open" THEN <<>> ELSE <<Msg("twilio", "mark", 0)>>

ClearTwilioAudioBuffer_Twice ==
  IF twilioWs # "open" THEN <<>>
  ELSE <<Msg("twilio", "clear", 0), Msg("twilio", "clear", 0)>>

ClearTwilioAudioBuffer ==
  IF twilioWs # "open" THEN <<>> ELSE <<Msg("twilio", "clear", 0)>>

SendFallbackMessage == <<>>

\* what the LLM service has seen after a turn that wrote `out'
Stimulate(out) ==
  /\ llmStimulated' = (llmStimulated \/ Sent(out, "llm", "response.create") > 0)
  /\ llmHeardAudio' =
       (llmHeardAudio \/ Sent(out, "llm", "input_audio_buffer.append") > 0)

\* what a turn leaves behind: its name, its writes, what they add up to
Effects(name, out) ==
  /\ lastEvent' = name
  /\ emitted' = out
  /\ Stimulate(out)
  /\ endCalls' = endCalls + Sent(out, "sink", "endCall")
  /\ responseOpen' = IF name = "response.created" THEN TRUE
                     ELSE IF name = "response.done" THEN FALSE
                     ELSE responseOpen

\* a turn of the mediator
Turn(name, out) ==
  /\ Effects(name, out)
  /\ UNCHANGED <<sinkVars, phoneVars, hookVars, toolVars, xmlVars, emVars, sessVars>>

\* ------------------------------------------------------------------ Init
Callers == 1..MaxCallers

\* JavaScript values: tagged records; an object maps every key of the
\* model to a value, Undefined standing for an absent property
Undefined == [t |-> "undefined"]
Null == [t |-> "null"]
NaN == [t |-> "nan"]
Str(s) == [t |-> "string", s |-> s]
Num(n) == [t |-> "number", n |-> n]
Bool(b) == [t |-> "boolean", b |-> b]
Obj(f) == [t |-> "object", f |-> f]
Arr(a) == [t |-> "array", a |-> a]

NoReply == [type |-> "none", customerContext |-> <<>>]

\* no transcript event handled yet
SinkIdle ==
  /\ arrivals = 0
  /\ toolPending = {}
  /\ inflight = {}
  /\ stored = <<>>

\* no phone number under normalization
PhoneIdle ==
  /\ phonePc = 0
  /\ phoneIn = <<>>
  /\ phoneOut = <<>>
  /\ phoneOut2 = <<>>
  /\ statusPhone = <<>>

\* a fresh NextEngineService and no webhook request received
HookIdle ==
  /\ tokenInfo = "null"
  /\ hookPc = [c \in Callers |-> "idle"]
  /\ attempts = [c \in Callers |-> 0]
  /\ lookupOutcome = [c \in Callers |-> "none"]
  /\ customerContext = [c \in Callers |-> Undefined]
  /\ reply = [c \in Callers |-> NoReply]
  /\ decoded = [c \in Callers |-> Undefined]

\* a media-stream connection just accepted
MedIdle ==
  /\ twilioWs = "open"
  /\ stopped = FALSE
  /\ pc = "idle"
  /\ contextSet = FALSE
  /\ historyCallId = "null"
  /\ isInitialized = FALSE
  /\ isResponseActive = FALSE
  /\ isEchoCooldown = FALSE
  /\ echoCooldownTimer = NoTimer
  /\ timers = {}
  /\ initTimer = 0
  /\ ws = "null"
  /\ readyState = "none"
  /\ handlers = FALSE
  /\ updPending = FALSE
  /\ llmStimulated = FALSE
  /\ llmHeardAudio = FALSE
  /\ marksPending = 0
  /\ toolCalls = [c \in CallIds |-> "none"]
  /\ endCalls = 0
  /\ responseOpen = FALSE
  /\ lastEvent = "none"
  /\ emitted = <<>>

\* no tool call received
NoArgs == [json |-> "none", reason |-> "none", condition |-> "none",
           order_id |-> Undefined, phone_number |-> Undefined]
NoSearch == [sent |-> FALSE, phone |-> Undefined, orderId |-> Undefined]
NoOrder == [found |-> FALSE, totalAmount |-> 0, shipped |-> FALSE, diffDays |-> 0]
NoEligibility == [eligible |-> FALSE, reason |-> "none", requiresHuman |-> FALSE]
NoResult ==
  [kind |-> "none", message |-> <<"none", "">>, requiresTransfer |-> FALSE]

\* no tool call yet on a call whose caller number is `phone'
ToolIdleFor(phone) ==
  /\ toolPc = "idle"
  /\ toolName = "none"
  /\ toolArgs = NoArgs
  /\ toolOrder = NoOrder
  /\ eligibility = NoEligibility
  /\ backendWrites = 0
  /\ toolResult = NoResult
  /\ toolReplies = <<>>
  /\ callerPhone = phone
  /\ lastSearch = NoSearch

ToolIdle == ToolIdleFor(Str(""))

\* no document under construction
XmlIdle ==
  /\ xmlPc = 0
  /\ xmlBuilder = "none"
  /\ xmlMessage = <<>>
  /\ xmlNumber = <<>>
  /\ xmlOut = <<>>

NoOp == [op |-> "none", h |-> "none"]

\* no subscription yet
EmIdle ==
  /\ subs = <<>>
  /\ calls = <<>>
  /\ dropped = {}
  /\ emOp = NoOp

MaxStarts == 3
NoSession == [st |-> "none", returned |-> FALSE]

\* the carrier connected and sent nothing yet
SessIdle ==
  /\ sessions = [n \in 1..MaxStarts |-> NoSession]
  /\ handlerCtx = 0
  /\ carrier = "open"

Init == MedIdle /\ SinkIdle /\ PhoneIdle /\ HookIdle /\ ToolIdle /\ XmlIdle /\ EmIdle /\ SessIdle

\* ------------------------------------------- initializeStream (C7 setup)
\* carrier 'start': the context is built and startCall is awaited
CarrierStart ==
  /\ twilioWs = "open" /\ pc = "idle"
  /\ pc' = "startCall"
  /\ Turn("start", <<>>)
  /\ UNCHANGED <<twilioWs, stopped, contextSet, historyCallId, isInitialized,
                 isResponseActive, isEchoCooldown, echoCooldownTimer, timers,
                 initTimer, ws, readyState, handlers, updPending,
                 marksPending, toolCalls>>

\* startCall resolved (with a ref or with null); connect() opens the socket
StartCallDone(ref) ==
  /\ pc = "startCall"
  /\ historyCallId' = ref
  /\ ws' = "set" /\ readyState' = "connecting"
  /\ pc' = "connecting"
  /\ Turn("startCall.done", <<>>)
  /\ UNCHANGED <<twilioWs, stopped, contextSet, isInitialized,
                 isResponseActive, isEchoCooldown, echoCooldownTimer, timers,
                 initTimer, handlers, updPending, marksPending, toolCalls>>

\* socket 'open': connect() resolves, the subscribers are registered, the
\* session.update is sent and the race with the 3 s timer starts
LlmOpen ==
  /\ pc = "connecting" /\ readyState = "connecting"
  /\ readyState' = "open" /\ ws' = ws
  /\ handlers' = TRUE
  /\ updPending' = TRUE
  /\ pc' = "awaitSessionUpdated"
  /\ initTimer' = SessionUpdatedTimeoutMs
  /\ Turn("llm.open", UpdateSession')
  /\ UNCHANGED <<twilioWs, stopped, contextSet, historyCallId, isInitialized,
                 isResponseActive, isEchoCooldown, echoCooldownTimer, timers,
                 marksPending, toolCalls>>

\* socket 'error' then 'close' while connecting: connect() rejects, the catch
\* block runs sendFallbackMessage and the context is returned
LlmConnectError ==
  /\ pc = "connecting" /\ readyState = "connecting"
  /\ readyState' = "closed"
  /\ ws' = "null"
  /\ pc' = "failed"
  /\ contextSet' = TRUE
  /\ Turn("llm.connect_error", SendFallbackMessage)
  /\ UNCHANGED <<twilioWs, stopped, historyCallId, isInitialized,
                 isResponseActive, isEchoCooldown, echoCooldownTimer, timers,
                 initTimer, handlers, updPending, marksPending, toolCalls>>

FinishSessionWait_NoFlag ==
  /\ isInitialized' = isInitialized
  /\ pc' = "stabilizing"
  /\ initTimer' = StabilizeMs

\* the race of lines 182-188 is decided: flag set, 1.2 s delay starts (the
\* losing 3 s timer only logs when it fires later)
FinishSessionWait ==
  /\ isInitialized' = TRUE
  /\ pc' = "stabilizing"
  /\ initTimer' = StabilizeMs

\* LLM event session.updated
SessionUpdated ==
  /\ handlers /\ readyState \in {"open", "closing"}
  /\ updPending
  /\ updPending' = FALSE
  /\ IF pc = "awaitSessionUpdated"
       THEN FinishSessionWait
       ELSE UNCHANGED <<isInitialized, pc, initTimer>>
  /\ Turn("session.updated", <<>>)
  /\ UNCHANGED <<twilioWs, stopped, contextSet, historyCallId,
                 isResponseActive, isEchoCooldown, echoCooldownTimer, timers,
                 ws, readyState, handlers, marksPending, toolCalls>>

\* the 3 s timer of the race fires first
SessionUpdatedTimeout ==
  /\ pc = "awaitSessionUpdated" /\ initTimer = 0
  /\ FinishSessionWait
  /\ Turn("session.updated_timeout", <<>>)
  /\ UNCHANGED <<twilioWs, stopped, contextSet, historyCallId,
                 isResponseActive, isEchoCooldown, echoCooldownTimer, timers,
                 ws, readyState, handlers, updPending, marksPending,
                 toolCalls>>

\* the 1.2 s delay is over: greeting requested, initializeStream returns and
\* the 'start' handler assigns `context'
Greeting ==
  /\ pc = "stabilizing" /\ initTimer = 0
  /\ isResponseActive' = TRUE
  /\ pc' = "done"
  /\ contextSet' = TRUE
  /\ Turn("greeting", CreateResponse)
  /\ UNCHANGED <<twilioWs, stopped, historyCallId, isInitialized,
                 isEchoCooldown, echoCooldownTimer, timers, initTimer, ws,
                 readyState, handlers, updPending, marksPending, toolCalls>>

\* ------------------------------------------ handleMediaStream (C3 inbound)
MediaForwardGuard_NoGate == contextSet /\ IsConnected /\ isInitialized

MediaForwardGuard ==
  contextSet /\ IsConnected /\ isInitialized /\ ~isEchoCooldown

CarrierMedia ==
  /\ twilioWs = "open"
  /\ Turn("media", IF MediaForwardGuard THEN SendAudio ELSE <<>>)
  /\ UNCHANGED <<twilioWs, stopped, pc, contextSet, historyCallId,
                 isInitialized, isResponseActive, isEchoCooldown,
                 echoCooldownTimer, timers, initTimer, ws, readyState,
                 handlers, updPending, marksPending, toolCalls>>

\* OpenAIRealtimeSession.disconnect
DisconnectSession ==
  IF ws = "set"
    THEN /\ ws' = "null"
         /\ readyState' = IF readyState = "open" THEN "closing" ELSE readyState
    ELSE UNCHANGED <<ws, readyState>>

\* the transcript is closed if the call has a history id
EndCall_Always == <<Msg("sink", "endCall", 0)>>

EndCall ==
  IF historyCallId # "null" THEN <<Msg("sink", "endCall", 0)>> ELSE <<>>

\* case 'stop' of the message handler
StopTurn ==
  /\ twilioWs = "open" /\ pc # "idle" /\ ~stopped
  /\ stopped' = TRUE
  /\ IF contextSet THEN DisconnectSession ELSE UNCHANGED <<ws, readyState>>
  /\ Effects("stop", IF contextSet THEN EndCall ELSE <<>>)
  /\ UNCHANGED <<twilioWs, pc, contextSet, historyCallId, isInitialized,
                 isResponseActive, isEchoCooldown, echoCooldownTimer, timers,
                 initTimer, handlers, updPending, marksPending, toolCalls>>

CarrierStop ==
  /\ StopTurn
  /\ UNCHANGED <<sinkVars, phoneVars, hookVars, toolVars, xmlVars, emVars, sessVars>>

CarrierClose ==
  /\ twilioWs = "open"
  /\ twilioWs' = "closed"
  /\ IF contextSet THEN DisconnectSession ELSE UNCHANGED <<ws, readyState>>
  /\ Turn("twilio.close", <<>>)
  /\ UNCHANGED <<stopped, pc, contextSet, historyCallId, isInitialized,
                 isResponseActive, isEchoCooldown, echoCooldownTimer, timers,
                 initTimer, handlers, updPending, marksPending, toolCalls>>

\* setTimeout / clearTimeout on the cooldown timer
FreshTimerId(ts) ==
  CHOOSE i \in 1..(Cardinality(ts) + 1) : \A t \in ts : t.id # i

ClearTimeout(ts, id) == {t \in ts : t.id # id}

RearmBase_NoClear(ts, id) == ts

RearmBase(ts, id) == IF id # NoTimer THEN ClearTimeout(ts, id) ELSE ts

\* the timer calls of a turn, recorded with its socket writes
ClearEffect(id) ==
  IF id # NoTimer THEN <<Msg("timer", "clearTimeout", id)>> ELSE <<>>

\* carrier 'mark' named audio-complete; the carrier echoes the marks the
\* bridge sent it
CarrierMark ==
  /\ twilioWs = "open" /\ marksPending > 0
  /\ marksPending' = marksPending - 1
  /\ IF contextSet
       THEN LET base == RearmBase(timers, echoCooldownTimer)
                id == FreshTimerId(base)
            IN /\ isEchoCooldown' = TRUE
               /\ echoCooldownTimer' = id
               /\ timers' = base \cup {[id |-> id, left |-> CooldownMs]}
       ELSE UNCHANGED <<isEchoCooldown, echoCooldownTimer, timers>>
  /\ Turn("mark", IF contextSet
                    THEN ClearEffect(echoCooldownTimer)
                         \o <<Msg("timer", "setTimeout", CooldownMs)>>
                    ELSE <<>>)
  /\ UNCHANGED <<twilioWs, stopped, pc, contextSet, historyCallId,
                 isInitialized, isResponseActive, initTimer, ws, readyState,
                 handlers, updPending, toolCalls>>

\* the cooldown timer callback
\* what the timer callback assigns to isEchoCooldown
ExpiredFlag_Kept(cooling) == cooling

ExpiredFlag(cooling) == FALSE

CooldownExpire(t) ==
  /\ t \in timers /\ t.left = 0
  /\ timers' = timers \ {t}
  /\ isEchoCooldown' = ExpiredFlag(isEchoCooldown)
  /\ echoCooldownTimer' = NoTimer
  /\ Turn("cooldown.expired", <<>>)
  /\ UNCHANGED <<twilioWs, stopped, pc, contextSet, historyCallId,
                 isInitialized, isResponseActive, initTimer, ws, readyState,
                 handlers, updPending, marksPending, toolCalls>>

\* ------------------------------------- setupEventHandlers (C6 turn arbiter)
\* The socket's 'message' listener (part_003:65-67) stays attached after
\* disconnect() nulls the ws field, so events already in flight are still
\* dispatched while the socket is closing.  The LLM service follows its
\* protocol: response events need a response.create, speech events need
\* caller audio, session.updated answers a session.update.
Deliverable == handlers /\ readyState \in {"open", "closing"}

ResponseCreated ==
  /\ Deliverable /\ llmStimulated
  /\ isResponseActive' = TRUE
  /\ Turn("response.created", <<>>)
  /\ UNCHANGED <<twilioWs, stopped, pc, contextSet, historyCallId,
                 isInitialized, isEchoCooldown, echoCooldownTimer, timers,
                 initTimer, ws, readyState, handlers, updPending,
                 marksPending, toolCalls>>

\* what the 'response.done' subscriber assigns to isResponseActive
DoneFlag_Kept(active) == active

DoneFlag(active) == FALSE

ResponseDone ==
  /\ Deliverable /\ llmStimulated
  /\ isResponseActive' = DoneFlag(isResponseActive)
  /\ Turn("response.done", <<>>)
  /\ UNCHANGED <<twilioWs, stopped, pc, contextSet, historyCallId,
                 isInitialized, isEchoCooldown, echoCooldownTimer, timers,
                 initTimer, ws, readyState, handlers, updPending,
                 marksPending, toolCalls>>

\* the timer the delta handler clears
DeltaClears_Never(id) == FALSE

DeltaClears(id) == id # NoTimer

\* what the delta handler assigns to isEchoCooldown when it clears the timer
DeltaFlag_Kept(cooling) == cooling

DeltaFlag(cooling) == FALSE

AudioDelta ==
  /\ Deliverable /\ llmStimulated
  /\ IF DeltaClears(echoCooldownTimer)
       THEN /\ timers' = ClearTimeout(timers, echoCooldownTimer)
            /\ echoCooldownTimer' = NoTimer
            /\ isEchoCooldown' = DeltaFlag(isEchoCooldown)
       ELSE UNCHANGED <<timers, echoCooldownTimer, isEchoCooldown>>
  /\ Turn("response.audio.delta",
          (IF DeltaClears(echoCooldownTimer)
             THEN ClearEffect(echoCooldownTimer) ELSE <<>>)
          \o SendAudioToTwilio)
  /\ UNCHANGED <<twilioWs, stopped, pc, contextSet, historyCallId,
                 isInitialized, isResponseActive, initTimer, ws, readyState,
                 handlers, updPending, marksPending, toolCalls>>

AudioDone ==
  /\ Deliverable /\ llmStimulated
  /\ marksPending + Len(SendMarkToTwilio) <= MaxMarks
  /\ marksPending' = marksPending + Len(SendMarkToTwilio)
  /\ Turn("response.audio.done", SendMarkToTwilio)
  /\ UNCHANGED <<twilioWs, stopped, pc, contextSet, historyCallId,
                 isInitialized, isResponseActive, isEchoCooldown,
                 echoCooldownTimer, timers, initTimer, ws, readyState,
                 handlers, updPending, toolCalls>>

BargeInGuard_Always == TRUE

BargeInGuard == isResponseActive

SpeechStarted ==
  /\ Deliverable /\ llmHeardAudio
  /\ Turn("speech_started",
          IF BargeInGuard THEN CancelResponse \o ClearTwilioAudioBuffer
                          ELSE <<>>)
  /\ UNCHANGED <<twilioWs, stopped, pc, contextSet, historyCallId,
                 isInitialized, isResponseActive, isEchoCooldown,
                 echoCooldownTimer, timers, initTimer, ws, readyState,
                 handlers, updPending, marksPending, toolCalls>>

\* ---------------------------------------------------- handleToolCall (C4)
\* response.function_call_arguments.done{call_id}: executeTool is awaited
FunctionCallDone(c) ==
  /\ Deliverable /\ llmStimulated
  /\ toolCalls[c] = "none"
  /\ toolCalls' = [toolCalls EXCEPT ![c] = "running"]
  /\ Turn("function_call_arguments.done", <<>>)
  /\ UNCHANGED <<twilioWs, stopped, pc, contextSet, historyCallId,
                 isInitialized, isResponseActive, isEchoCooldown,
                 echoCooldownTimer, timers, initTimer, ws, readyState,
                 handlers, updPending, marksPending>>

ToolOutcomes == {"text", "transfer", "handoff", "throw"}

\* executeTool settled: each branch of handleToolCall ends in one
\* sendToolResult for the call id
ToolSettled(c, outcome) ==
  /\ toolCalls[c] = "running"
  /\ toolCalls' = [toolCalls EXCEPT ![c] = "done"]
  /\ Turn("tool.settled", SendToolResult(c))
  /\ UNCHANGED <<twilioWs, stopped, pc, contextSet, historyCallId,
                 isInitialized, isResponseActive, isEchoCooldown,
                 echoCooldownTimer, timers, initTimer, ws, readyState,
                 handlers, updPending, marksPending>>

\* ------------------------------------------------- LLM socket 'close'
LlmClose ==
  /\ readyState \in {"open", "closing"}
  /\ readyState' = "closed"
  /\ ws' = "null"
  /\ Turn("llm.close", <<>>)
  /\ UNCHANGED <<twilioWs, stopped, pc, contextSet, historyCallId,
                 isInitialized, isResponseActive, isEchoCooldown,
                 echoCooldownTimer, timers, initTimer, handlers, updPending,
                 marksPending, toolCalls>>

\* ------------------------------------------------------ passage of time
TimerDue ==
  \/ \E t \in timers : t.left = 0
  \/ pc \in {"awaitSessionUpdated", "stabilizing"} /\ initTimer = 0

TimerRunning ==
  \/ timers # {}
  \/ pc \in {"awaitSessionUpdated", "stabilizing"}

\* TickMs elapse; a timer that is due runs before time moves on
Tick ==
  /\ TimerRunning /\ ~TimerDue
  /\ timers' = {[id |-> t.id, left |-> Monus(t.left, TickMs)] : t \in timers}
  /\ initTimer' = Monus(initTimer, TickMs)
  /\ Turn("tick", <<>>)
  /\ UNCHANGED <<twilioWs, stopped, pc, contextSet, historyCallId,
                 isInitialized, isResponseActive, isEchoCooldown,
                 echoCooldownTimer, ws, readyState, handlers, updPending,
                 marksPending, toolCalls>>

Next ==
  \/ CarrierStart
  \/ \E ref \in {"null", "id"} : StartCallDone(ref)
  \/ LlmOpen
  \/ LlmConnectError
  \/ SessionUpdated
  \/ SessionUpdatedTimeout
  \/ Greeting
  \/ CarrierMedia
  \/ CarrierStop
  \/ CarrierClose
  \/ CarrierMark
  \/ \E t \in timers : CooldownExpire(t)
  \/ ResponseCreated
  \/ ResponseDone
  \/ AudioDelta
  \/ AudioDone
  \/ SpeechStarted
  \/ \E c \in CallIds : FunctionCallDone(c)
  \/ \E c \in CallIds, o \in ToolOutcomes : ToolSettled(c, o)
  \/ LlmClose
  \/ Tick

Spec == Init /\ [][Next]_vars

\* ------------------------------------- LLM 'error' events (handleMessage)
BenignCode == "response_cancel_not_active"
ErrorCodes == {BenignCode, "server_error"}

\* emitEvent('error', message): every subscriber of 'error' is called
EmitError(code) == IF handlers THEN <<Msg("subscriber", code, 0)>> ELSE <<>>

\* the mediator's 'error' subscriber logs all but the benign code
OnError(code) ==
  IF handlers /\ code # BenignCode THEN <<Msg("log", "error", 0)>> ELSE <<>>

LlmError(code) ==
  /\ Deliverable
  /\ Turn(code, EmitError(code) \o OnError(code))
  /\ UNCHANGED <<twilioWs, stopped, pc, contextSet, historyCallId,
                 isInitialized, isResponseActive, isEchoCooldown,
                 echoCooldownTimer, timers, initTimer, ws, readyState,
                 handlers, updPending, marksPending, toolCalls>>

\* ------------------------------------------- malformed carrier frames
\* "malformed.json":      JSON.parse throws
\* "malformed.nomedia":   event 'media' without the media field; reading
\*                        data.media.payload throws inside the gate
\* "malformed.nopayload": event 'media' whose media field has no payload;
\*                        sendAudio(undefined) is called inside the gate
MalformedKinds ==
  {"malformed.json", "malformed.nomedia", "malformed.nopayload"}

MalformedWrites(kind) ==
  IF kind = "malformed.nopayload" /\ MediaForwardGuard THEN SendAudio
  ELSE <<>>

\* the catch of the message handler logs whatever was thrown; an append
\* without audio gives the LLM nothing to hear
CarrierMalformed(kind) ==
  /\ twilioWs = "open"
  /\ lastEvent' = kind
  /\ emitted' = MalformedWrites(kind)
  /\ UNCHANGED <<twilioWs, stopped, pc, contextSet, historyCallId,
                 isInitialized, isResponseActive, isEchoCooldown,
                 echoCooldownTimer, timers, initTimer, ws, readyState,
                 handlers, updPending, marksPending, toolCalls,
                 llmStimulated, llmHeardAudio, endCalls, responseOpen>>
  /\ UNCHANGED <<sinkVars, phoneVars, hookVars, toolVars, xmlVars, emVars, sessVars>>

\* the mediator with error events and malformed frames
NextAll ==
  \/ Next
  \/ \E code \in ErrorCodes : LlmError(code)
  \/ \E kind \in MalformedKinds : CarrierMalformed(kind)

SpecAll == Init /\ [][NextAll]_vars

\* Node runs a due timer callback and lets time pass: the timers that
\* initializeStream waits on do fire
LiveSpec ==
  /\ Spec
  /\ WF_vars(Tick)
  /\ WF_vars(SessionUpdatedTimeout)
  /\ WF_vars(Greeting)

\* Node also runs every due cooldown callback
LiveSpecCooldown ==
  /\ LiveSpec
  /\ WF_vars(\E t \in timers : CooldownExpire(t))

\* ============================================== transcript sink (C14)
\* the mediator once the greeting has been requested, history id `ref'
MedGreeted(ref) ==
  /\ twilioWs = "open"
  /\ stopped = FALSE
  /\ pc = "done"
  /\ contextSet = TRUE
  /\ historyCallId = ref
  /\ isInitialized = TRUE
  /\ isResponseActive = TRUE
  /\ isEchoCooldown = FALSE
  /\ echoCooldownTimer = NoTimer
  /\ timers = {}
  /\ initTimer = 0
  /\ ws = "set"
  /\ readyState = "open"
  /\ handlers = TRUE
  /\ updPending = FALSE
  /\ llmStimulated = TRUE
  /\ llmHeardAudio = FALSE
  /\ marksPending = 0
  /\ toolCalls = [c \in CallIds |-> "none"]
  /\ endCalls = 0
  /\ responseOpen = FALSE
  /\ lastEvent = "greeting"
  /\ emitted = <<Msg("llm", "response.create", 0)>>

Row(n, kind) == [n |-> n, kind |-> kind]

\* addMessage / addToolCall: the insert is sent and nobody awaits it
Insert(n, kind) == inflight' = inflight \cup {Row(n, kind)}

\* 'response.audio_transcript.done'
AssistantTranscriptDone(hasText) ==
  /\ arrivals < MaxEntries
  /\ arrivals' = arrivals + 1
  /\ IF hasText /\ historyCallId # "null"
       THEN Insert(arrivals + 1, "ai")
       ELSE UNCHANGED inflight
  /\ UNCHANGED <<toolPending, stored, medVars, phoneVars, hookVars, toolVars,
                 xmlVars, emVars, sessVars>>

\* 'conversation.item.input_audio_transcription.completed'
CallerTranscriptDone(hasText) ==
  /\ arrivals < MaxEntries
  /\ arrivals' = arrivals + 1
  /\ IF hasText /\ historyCallId # "null"
       THEN Insert(arrivals + 1, "user")
       ELSE UNCHANGED inflight
  /\ UNCHANGED <<toolPending, stored, medVars, phoneVars, hookVars, toolVars,
                 xmlVars, emVars, sessVars>>

\* 'response.function_call_arguments.done': handleToolCall awaits the tool
ToolCallArrived ==
  /\ arrivals < MaxEntries
  /\ arrivals' = arrivals + 1
  /\ toolPending' = toolPending \cup {arrivals + 1}
  /\ UNCHANGED <<inflight, stored, medVars, phoneVars, hookVars, toolVars,
                 xmlVars, emVars, sessVars>>

\* executeTool settles: a resolved call is recorded, a rejected one is not
ToolCallSettled(n, resolved) ==
  /\ n \in toolPending
  /\ toolPending' = toolPending \ {n}
  /\ IF resolved /\ historyCallId # "null"
       THEN Insert(n, "tool")
       ELSE UNCHANGED inflight
  /\ UNCHANGED <<arrivals, stored, medVars, phoneVars, hookVars, toolVars,
                 xmlVars, emVars, sessVars>>

\* the sink answers an insert: the row is stored, or the error is logged
InsertSettled(r, ok) ==
  /\ r \in inflight
  /\ inflight' = inflight \ {r}
  /\ stored' = IF ok THEN Append(stored, r) ELSE stored
  /\ UNCHANGED <<arrivals, toolPending, medVars, phoneVars, hookVars, toolVars,
                 xmlVars, emVars, sessVars>>

InitSink ==
  /\ \E ref \in {"null", "id"} : MedGreeted(ref)
  /\ SinkIdle /\ PhoneIdle /\ HookIdle /\ ToolIdle /\ XmlIdle /\ EmIdle /\ SessIdle

NextSink ==
  \/ \E hasText \in BOOLEAN : AssistantTranscriptDone(hasText)
  \/ \E hasText \in BOOLEAN : CallerTranscriptDone(hasText)
  \/ ToolCallArrived
  \/ \E n \in 1..MaxEntries, resolved \in BOOLEAN : ToolCallSettled(n, resolved)
  \/ \E n \in 1..MaxEntries, kind \in {"ai", "user", "tool"}, ok \in BOOLEAN :
       InsertSettled(Row(n, kind), ok)

SpecSink == InitSink /\ [][NextSink]_vars

\* ------------------------------ the mediator and its sink, from the start
EndRow == Row(0, "end")

\* 'stop' with the endCall request on its way to the sink
StopRecorded ==
  /\ StopTurn
  /\ inflight' = IF Sent(emitted', "sink", "endCall") > 0
                   THEN inflight \cup {EndRow} ELSE inflight
  /\ UNCHANGED <<arrivals, toolPending, stored, phoneVars, hookVars, toolVars,
                 xmlVars, emVars, sessVars>>

\* the LLM produces transcripts and tool calls once it was asked to respond
\* or was given audio
Responding == Deliverable /\ (llmStimulated \/ llmHeardAudio)

NextHistory ==
  \/ CarrierStart
  \/ \E ref \in {"null", "id"} : StartCallDone(ref)
  \/ LlmOpen
  \/ LlmConnectError
  \/ SessionUpdated
  \/ SessionUpdatedTimeout
  \/ Greeting
  \/ Tick
  \/ StopRecorded
  \/ CarrierClose
  \/ LlmClose
  \/ \E hasText \in BOOLEAN : Responding /\ AssistantTranscriptDone(hasText)
  \/ \E hasText \in BOOLEAN : Responding /\ CallerTranscriptDone(hasText)
  \/ Responding /\ ToolCallArrived
  \/ \E n \in 1..MaxEntries, resolved \in BOOLEAN : ToolCallSettled(n, resolved)
  \/ \E n \in 0..MaxEntries, kind \in {"ai", "user", "tool", "end"},
        ok \in BOOLEAN : InsertSettled(Row(n, kind), ok)

SpecHistory == Init /\ [][NextHistory]_vars

\* ============================================ phone normalization (C19)
MinLen81 == 11                 \* nextengine.ts:111
PhoneChars == {"+", "8", "1", "-", "0"}

StartsWith(s, prefix) ==
  Len(s) >= Len(prefix) /\ SubSeq(s, 1, Len(prefix)) = prefix

Slice(s, from) == SubSeq(s, from + 1, Len(s))

NotDash(c) == c # "-"

NormalizePhoneForSearch(phone) ==
  IF StartsWith(phone, <<"+", "8", "1">>) THEN <<"0">> \o Slice(phone, 3)
  ELSE IF StartsWith(phone, <<"8", "1">>) /\ Len(phone) >= MinLen81
    THEN <<"0">> \o Slice(phone, 2)
  ELSE SelectSeq(phone, NotDash)

Heads == UNION {[1..k -> PhoneChars] : k \in 0..MaxHead}
Fills == {[i \in 1..k |-> "9"] : k \in 0..MaxFill}

\* searchCustomerByPhone normalizes the caller's number
PhoneNormalize ==
  /\ phonePc = 0
  /\ phonePc' = 1
  /\ phoneOut' = NormalizePhoneForSearch(phoneIn)
  /\ UNCHANGED <<phoneIn, phoneOut2, statusPhone, medVars, sinkVars, hookVars,
                 toolVars, xmlVars, emVars, sessVars>>

\* the normalized number is normalized again
PhoneRenormalize ==
  /\ phonePc = 1
  /\ phonePc' = 2
  /\ phoneOut2' = NormalizePhoneForSearch(phoneOut)
  /\ UNCHANGED <<phoneIn, phoneOut, statusPhone, medVars, sinkVars, hookVars,
                 toolVars, xmlVars, emVars, sessVars>>

\* the webhook's caller number: From, or 'unknown' without one; the same
\* string goes to searchCustomerByPhone and, as a stream parameter, into
\* context.callerPhone
CallerOf(from) == IF from = <<>> THEN <<"unknown">> ELSE from

\* executeCheckOrderStatus without arguments: args.phone_number ||
\* context.customerPhone goes to searchOrders as it is
StatusPhone(customerPhone) == customerPhone

\* check_order_status is called with no arguments during the call
PhoneStatusSearch ==
  /\ phonePc = 2
  /\ phonePc' = 3
  /\ statusPhone' = StatusPhone(CallerOf(phoneIn))
  /\ UNCHANGED <<phoneIn, phoneOut, phoneOut2, medVars, sinkVars, hookVars,
                 toolVars, xmlVars, emVars, sessVars>>

InitPhone ==
  /\ MedIdle /\ SinkIdle /\ HookIdle /\ ToolIdle /\ XmlIdle /\ EmIdle /\ SessIdle
  /\ phonePc = 0
  /\ \E h \in Heads, f \in Fills : phoneIn = h \o f
  /\ phoneOut = <<>>
  /\ phoneOut2 = <<>>
  /\ statusPhone = <<>>

NextPhone == PhoneNormalize \/ PhoneRenormalize \/ PhoneStatusSearch

SpecPhone == InitPhone /\ [][NextPhone]_vars

\* ================================== webhook and backend client (C15-C18)
KeySeq == <<"found", "customerName", "greeting", "orders", "latestOrder",
            "error", "orderId", "trackingNumber", "totalAmount">>
Keys == {KeySeq[i] : i \in DOMAIN KeySeq}

\* an object literal: the listed properties, every other key absent
Literal(props) ==
  Obj([k \in Keys |->
        IF \E i \in DOMAIN props : props[i][1] = k
          THEN (CHOOSE pr \in {props[i] : i \in DOMAIN props} : pr[1] = k)[2]
          ELSE Undefined])

GreetingAskName == Str("greeting: ask for the name")
GreetingNeutral == Str("greeting: neutral")
GreetingNamed(name) ==
  IF name = Undefined THEN Str("greeting: undefined-sama")
  ELSE Str("greeting: Tanaka-sama")

\* ---- the backend's search response
NeOrders ==
  [receive_order_id : {Str("1001")},
   receive_order_purchaser_name : {Undefined, Str("Tanaka")},
   receive_order_delivery_slip_number : {Str(""), Str("T1")},
   receive_order_total_amount : {Str(""), Str("3200")}]

Responses == UNION {[1..k -> NeOrders] : k \in 0..MaxOrders}

SampleOrder ==
  [receive_order_id |-> Str("1001"),
   receive_order_purchaser_name |-> Str("Tanaka"),
   receive_order_delivery_slip_number |-> Str(""),
   receive_order_total_amount |-> Str("3200")]

SampleResponses == {<<>>, <<SampleOrder>>}

\* ---- convertOrder
Falsy(v) ==
  \/ v.t \in {"undefined", "null", "nan"}
  \/ v = Str("") \/ v = Num(0) \/ v = Bool(FALSE)

OrElse(v, w) == IF Falsy(v) THEN w ELSE v

ParseInt(v) == IF v = Str("3200") THEN Num(3200) ELSE NaN

ConvertOrder(neOrder) ==
  Literal(<<
    <<"orderId", neOrder.receive_order_id>>,
    <<"customerName", neOrder.receive_order_purchaser_name>>,
    <<"trackingNumber",
      OrElse(neOrder.receive_order_delivery_slip_number, Null)>>,
    <<"totalAmount",
      OrElse(ParseInt(neOrder.receive_order_total_amount), Num(0))>> >>)

\* ---- searchCustomerByPhone
NotFoundContext ==
  Literal(<< <<"found", Bool(FALSE)>>, <<"greeting", GreetingAskName>> >>)

CatchContext_NoFlag ==
  Literal(<< <<"found", Bool(FALSE)>>, <<"greeting", GreetingNeutral>> >>)

CatchContext ==
  Literal(<< <<"found", Bool(FALSE)>>, <<"greeting", GreetingNeutral>>,
             <<"error", Bool(TRUE)>> >>)

FoundContext(orders) ==
  LET latestOrder == orders[1]
      customerName == latestOrder.f["customerName"]
  IN Literal(<<
       <<"found", Bool(TRUE)>>,
       <<"customerName", customerName>>,
       <<"greeting", GreetingNamed(customerName)>>,
       <<"orders", Arr(orders)>>,
       <<"latestOrder",
         Literal(<< <<"orderId", latestOrder.f["orderId"]>>,
                    <<"trackingNumber", latestOrder.f["trackingNumber"]>> >>)>> >>)

SearchCustomerResult(data) ==
  LET orders == [i \in DOMAIN data |-> ConvertOrder(data[i])]
  IN IF Len(orders) = 0 THEN NotFoundContext ELSE FoundContext(orders)

\* ---- JSON text: a sequence of tokens
Punct(p) == [t |-> "punct", p |-> p]
KeyTok(k) == [t |-> "key", key |-> k]

RECURSIVE Stringify(_), Members(_, _), Elems(_)
Stringify(v) ==
  IF v.t = "object" THEN <<Punct("{")>> \o Members(v.f, KeySeq) \o <<Punct("}")>>
  ELSE IF v.t = "array" THEN <<Punct("[")>> \o Elems(v.a) \o <<Punct("]")>>
  ELSE IF v.t = "nan" THEN <<Null>>
  ELSE <<v>>

Members(f, ks) ==
  IF ks = <<>> THEN <<>>
  ELSE (IF f[Head(ks)].t = "undefined" THEN <<>>
        ELSE <<KeyTok(Head(ks))>> \o Stringify(f[Head(ks)]))
       \o Members(f, Tail(ks))

Elems(a) ==
  IF a = <<>> THEN <<>>
  ELSE (IF Head(a).t = "undefined" THEN <<Null>> ELSE Stringify(Head(a)))
       \o Elems(Tail(a))

ParseError == [ok |-> FALSE, val |-> Undefined, rest |-> <<>>]

RECURSIVE ParseValue(_), ParseMembers(_, _), ParseElems(_, _)
ParseValue(ts) ==
  IF ts = <<>> THEN ParseError
  ELSE LET h == Head(ts)
       IN IF h.t = "punct" /\ h.p = "{"
            THEN ParseMembers(Tail(ts), [k \in Keys |-> Undefined])
          ELSE IF h.t = "punct" /\ h.p = "["
            THEN ParseElems(Tail(ts), <<>>)
          ELSE IF h.t \in {"string", "number", "boolean", "null"}
            THEN [ok |-> TRUE, val |-> h, rest |-> Tail(ts)]
          ELSE ParseError

ParseMembers(ts, f) ==
  IF ts = <<>> THEN ParseError
  ELSE LET h == Head(ts)
       IN IF h.t = "punct" /\ h.p = "}"
            THEN [ok |-> TRUE, val |-> Obj(f), rest |-> Tail(ts)]
          ELSE IF h.t = "key"
            THEN LET r == ParseValue(Tail(ts))
                 IN IF r.ok
                      THEN ParseMembers(r.rest, [f EXCEPT ![h.key] = r.val])
                      ELSE ParseError
          ELSE ParseError

ParseElems(ts, a) ==
  IF ts = <<>> THEN ParseError
  ELSE LET h == Head(ts)
       IN IF h.t = "punct" /\ h.p = "]"
            THEN [ok |-> TRUE, val |-> Arr(a), rest |-> Tail(ts)]
          ELSE LET r == ParseValue(ts)
               IN IF r.ok THEN ParseElems(r.rest, Append(a, r.val))
                  ELSE ParseError

\* ---- Buffer.from(text): one byte per token of the text
TokenTable ==
  <<Punct("{"), Punct("}"), Punct("["), Punct("]"),
    Null, Bool(FALSE), Bool(TRUE), Num(0), Num(3200),
    Str(""), Str("1001"), Str("Tanaka"), Str("T1"),
    GreetingAskName, GreetingNeutral, GreetingNamed(Undefined),
    GreetingNamed(Str("Tanaka"))>>
  \o [i \in DOMAIN KeySeq |-> KeyTok(KeySeq[i])]

ToBytes(ts) ==
  [i \in DOMAIN ts |-> CHOOSE b \in DOMAIN TokenTable : TokenTable[b] = ts[i]]

FromBytes(bs) ==
  [i \in DOMAIN bs |->
     IF bs[i] \in DOMAIN TokenTable THEN TokenTable[bs[i]] ELSE Undefined]

\* ---- base64: four 6-bit characters per three bytes, '=' padding
Pad == 64

RECURSIVE Base64Encode(_)
Base64Encode(bs) ==
  IF Len(bs) = 0 THEN <<>>
  ELSE IF Len(bs) = 1
    THEN <<bs[1] \div 4, (bs[1] % 4) * 16, Pad, Pad>>
  ELSE IF Len(bs) = 2
    THEN <<bs[1] \div 4, (bs[1] % 4) * 16 + bs[2] \div 16,
           (bs[2] % 16) * 4, Pad>>
  ELSE <<bs[1] \div 4, (bs[1] % 4) * 16 + bs[2] \div 16,
         (bs[2] % 16) * 4 + bs[3] \div 64, bs[3] % 64>>
       \o Base64Encode(SubSeq(bs, 4, Len(bs)))

\* the bytes of one group of four characters
DecodeQuantum_NoPadding(q) ==
  IF q[1] = Pad \/ q[2] = Pad \/ q[3] = Pad \/ q[4] = Pad THEN <<>>
  ELSE <<q[1] * 4 + q[2] \div 16, (q[2] % 16) * 16 + q[3] \div 4,
         (q[3] % 4) * 64 + q[4]>>

DecodeQuantum(q) ==
  IF q[1] = Pad \/ q[2] = Pad THEN <<>>
  ELSE IF q[3] = Pad THEN <<q[1] * 4 + q[2] \div 16>>
  ELSE IF q[4] = Pad
    THEN <<q[1] * 4 + q[2] \div 16, (q[2] % 16) * 16 + q[3] \div 4>>
  ELSE <<q[1] * 4 + q[2] \div 16, (q[2] % 16) * 16 + q[3] \div 4,
         (q[3] % 4) * 64 + q[4]>>

RECURSIVE Base64Decode(_)
Base64Decode(cs) ==
  IF cs = <<>> THEN <<>>
  ELSE IF Len(cs) < 4
    THEN DecodeQuantum(cs \o [i \in 1..(4 - Len(cs)) |-> Pad])
  ELSE DecodeQuantum(SubSeq(cs, 1, 4)) \o Base64Decode(SubSeq(cs, 5, Len(cs)))

\* ---- handleIncomingCall: contextParam and the reply
ContextParam(ctx) == Base64Encode(ToBytes(Stringify(ctx)))

GenerateTwiML(contextParam) ==
  [type |-> "text/xml", customerContext |-> contextParam]

\* ---- initializeStream: decoding the start parameter
DefaultContext ==
  Literal(<< <<"found", Bool(FALSE)>>, <<"greeting", GreetingNeutral>> >>)

DecodeContext(param) ==
  IF param = <<>> THEN DefaultContext
  ELSE LET r == ParseValue(FromBytes(Base64Decode(param)))
       IN IF r.ok /\ r.rest = <<>> THEN r.val ELSE DefaultContext

\* ---- the turns of one webhook request
\* the lookup has settled with context ctx: encode it and reply
ReplyWith(c, ctx, how) ==
  /\ customerContext' = [customerContext EXCEPT ![c] = ctx]
  /\ reply' = [reply EXCEPT ![c] = GenerateTwiML(ContextParam(ctx))]
  /\ lookupOutcome' = [lookupOutcome EXCEPT ![c] = how]
  /\ hookPc' = [hookPc EXCEPT ![c] = "replied"]

\* POST /incoming-call: searchCustomerByPhone -> searchOrders -> getAccessToken
IncomingCall(c) ==
  /\ hookPc[c] = "idle"
  /\ IF tokenInfo \in {"null", "expired"}
       THEN /\ hookPc' = [hookPc EXCEPT ![c] = "refreshing"]
            /\ UNCHANGED attempts
       ELSE /\ hookPc' = [hookPc EXCEPT ![c] = "searching"]
            /\ attempts' = [attempts EXCEPT ![c] = @ + 1]
  /\ UNCHANGED <<tokenInfo, lookupOutcome, customerContext, reply, decoded,
                 medVars, sinkVars, phoneVars, toolVars,
                 xmlVars, emVars, sessVars>>

\* the answer to POST /api_neauth
RefreshResponds(c, ok) ==
  /\ hookPc[c] = "refreshing"
  /\ IF ok
       THEN /\ tokenInfo' = "valid"
            /\ hookPc' = [hookPc EXCEPT ![c] = "searching"]
            /\ attempts' = [attempts EXCEPT ![c] = @ + 1]
            /\ UNCHANGED <<lookupOutcome, customerContext, reply>>
       ELSE /\ ReplyWith(c, CatchContext, "refresh_failed")
            /\ UNCHANGED <<tokenInfo, attempts>>
  /\ UNCHANGED <<decoded, medVars, sinkVars, phoneVars, toolVars,
                 xmlVars, emVars, sessVars>>

SearchFailures == {"network_error", "error_result", "auth_error"}

\* the answer to POST /api_v1_receiveorder_base/search
SearchResponds(c, how, data) ==
  /\ hookPc[c] = "searching"
  /\ IF how \in SearchFailures
       THEN ReplyWith(c, CatchContext, how)
       ELSE ReplyWith(c, SearchCustomerResult(data),
                      IF Len(data) = 0 THEN "zero" ELSE "orders")
  /\ UNCHANGED <<tokenInfo, attempts, decoded, medVars, sinkVars, phoneVars, toolVars,
                 xmlVars, emVars, sessVars>>

\* 23 hours pass since the last refresh
TokenExpires ==
  /\ tokenInfo = "valid"
  /\ tokenInfo' = "expired"
  /\ UNCHANGED <<hookPc, attempts, lookupOutcome, customerContext, reply, decoded,
                 medVars, sinkVars, phoneVars, toolVars,
                 xmlVars, emVars, sessVars>>

\* the carrier opens the media stream with the reply's parameters
StreamStart(c) ==
  /\ hookPc[c] = "replied"
  /\ hookPc' = [hookPc EXCEPT ![c] = "streaming"]
  /\ decoded' = [decoded EXCEPT ![c] = DecodeContext(reply[c].customerContext)]
  /\ UNCHANGED <<tokenInfo, attempts, lookupOutcome, customerContext, reply,
                 medVars, sinkVars, phoneVars, toolVars,
                 xmlVars, emVars, sessVars>>

NextHook(cs, datas) ==
  \/ \E c \in cs : IncomingCall(c)
  \/ \E c \in cs, ok \in BOOLEAN : RefreshResponds(c, ok)
  \/ \E c \in cs, how \in SearchFailures \cup {"ok"}, data \in datas :
       SearchResponds(c, how, data)
  \/ TokenExpires
  \/ \E c \in cs : StreamStart(c)

InitHook ==
  MedIdle /\ SinkIdle /\ PhoneIdle /\ HookIdle /\ ToolIdle /\ XmlIdle /\ EmIdle /\ SessIdle

\* concurrent requests on the module's one NextEngineService
NextBackend == NextHook(Callers, SampleResponses)
SpecBackend == InitHook /\ [][NextBackend]_vars

\* one request, every search response
NextCarry == NextHook({1}, Responses)
SpecCarry == InitHook /\ [][NextCarry]_vars

\* ======================================== tool dispatcher (C21, C22, C24)
AmountLimit == 10000           \* status-mapper: totalAmount >= 10000
DayLimit == 7                  \* status-mapper: daysSinceDelivery > 7
SampleAmount == 15000          \* a high-value order

SellerFaultReasons == {"defective", "damaged", "wrong_item"}
ReturnReasons ==
  SellerFaultReasons \cup {"size_issue", "image_different", "other"}
ProductConditions == {"unopened", "opened"}

ToolNames == {"check_order_status", "register_return", "send_email",
              "transfer_to_human"}
UnknownTools == {"bogus_tool"}

Amounts ==
  {0, SampleAmount} \cup ((AmountLimit - MaxMargin)..(AmountLimit + MaxMargin))
DiffDays == 0..(DayLimit + 1 + MaxMargin)

\* the orders getOrder can return
FetchedOrders ==
  {[found |-> TRUE, totalAmount |-> a, shipped |-> sh, diffDays |-> d] :
     a \in Amounts, sh \in BOOLEAN, d \in DiffDays}

\* calculateDaysSinceDelivery: whole days since shipping, one day in transit
CalculateDaysSinceDelivery(order) ==
  IF ~order.shipped THEN 0 ELSE Monus(order.diffDays, 1)

Decision(eligible, reason, requiresHuman) ==
  [eligible |-> eligible, reason |-> reason, requiresHuman |-> requiresHuman]

HighValue_Above(totalAmount) == totalAmount > AmountLimit

HighValue(totalAmount) == totalAmount >= AmountLimit

CheckReturnEligibility(order, returnReason, condition, daysSinceDelivery) ==
  IF HighValue(order.totalAmount)
    THEN Decision(FALSE, "high value: an agent will handle it", TRUE)
  ELSE IF daysSinceDelivery > DayLimit
    THEN Decision(FALSE, "more than 7 days since delivery", TRUE)
  ELSE IF returnReason \in SellerFaultReasons
    THEN Decision(TRUE, "accepted, shipping paid by the seller", FALSE)
  ELSE IF condition = "opened"
    THEN Decision(FALSE, "opened items cannot be returned", TRUE)
  ELSE Decision(TRUE, "accepted, shipping paid by the buyer", FALSE)

\* ---- results of executeTool
TextResult(message) ==
  [kind |-> "text", message |-> message, requiresTransfer |-> FALSE]
ObjectResult(message, requiresTransfer) ==
  [kind |-> "object", message |-> message,
   requiresTransfer |-> requiresTransfer]
\* a text: its wording and the value interpolated into it
Txt(message) == <<message, "">>
UnknownToolText(name) == <<"unknown tool", name>>
SystemErrorText_Transfer == <<"connecting you to an agent", "">>
SystemErrorText == <<"a system error occurred", "">>

TransferAction ==
  [kind |-> "transfer", message |-> Txt("none"), requiresTransfer |-> FALSE]
Thrown ==
  [kind |-> "thrown", message |-> Txt("none"), requiresTransfer |-> FALSE]

\* the text handleToolCall passes to sendToolResult
ReplyText(result) ==
  IF result.kind = "thrown" THEN SystemErrorText
  ELSE IF result.kind = "transfer" THEN Txt("connecting you to an agent")
  ELSE result.message

medRest == <<twilioWs, stopped, pc, contextSet, historyCallId, isInitialized,
             isResponseActive, isEchoCooldown, echoCooldownTimer, timers,
             initTimer, ws, readyState, handlers, updPending, marksPending>>

\* handleToolCall's ending: one sendToolResult for the call id
Settle(result) ==
  /\ toolResult' = result
  /\ toolReplies' = Append(toolReplies, ReplyText(result))
  /\ toolCalls' = [toolCalls EXCEPT ![1] = "done"]
  /\ toolPc' = "settled"
  /\ Effects("tool.settled", SendToolResult(1))

\* executeTool is still awaiting its backend
Await(position) ==
  /\ toolPc' = position
  /\ toolCalls' = [toolCalls EXCEPT ![1] = "running"]
  /\ Effects("tool.awaiting", <<>>)
  /\ UNCHANGED <<toolResult, toolReplies>>

\* ---- the searchOrders requests of the tools
SearchParams(phone, orderId) ==
  [sent |-> TRUE, phone |-> phone, orderId |-> orderId]

\* searchOrders: the conditions appended to the request, one per truthy
\* parameter; nothing stops a request without any
Conditions(params) ==
  {k \in {"phone", "orderId"} : ~Falsy(params[k])}

\* getOrder(order_id)
GetOrderParams(order_id) == SearchParams(Undefined, order_id)

\* executeCheckOrderStatus: the caller's number stands in for a missing
\* phone_number, and an order id replaces the phone
CheckOrderStatusParams(args, customerPhone) ==
  SearchParams(IF ~Falsy(args.order_id) THEN Undefined
               ELSE OrElse(args.phone_number, customerPhone),
               args.order_id)

SamplePhone == Str("+819012345678")
CallerPhones == {Str(""), Str("unknown"), SamplePhone}
ArgPhones == {Undefined, Str("09012345678")}
ArgOrderIds == {Undefined, Str("1001")}

\* response.function_call_arguments.done: handleToolCall up to its first
\* await that leaves the turn
ToolCallReceived(name, json, reason, condition, order_id, phone_number, hasEmail) ==
  /\ Deliverable /\ llmStimulated
  /\ toolCalls[1] = "none" /\ toolPc = "idle"
  /\ json # "object" => (reason = "undefined" /\ condition = "undefined")
  /\ json = "object" => (reason # "undefined" /\ condition # "undefined")
  /\ json # "object" => (order_id = Undefined /\ phone_number = Undefined)
  /\ (json = "object" /\ name = "register_return") => order_id # Undefined
  /\ name # "check_order_status" => phone_number = Undefined
  /\ name \notin {"check_order_status", "register_return"}
       => order_id = Undefined
  /\ toolName' = name
  /\ toolArgs' = [json |-> json, reason |-> reason, condition |-> condition,
                  order_id |-> order_id, phone_number |-> phone_number]
  /\ lastSearch' =
       IF name \in UnknownTools \/ json = "null" THEN lastSearch
       ELSE IF name = "register_return" THEN GetOrderParams(order_id)
       ELSE IF name = "check_order_status"
         THEN CheckOrderStatusParams(toolArgs', callerPhone)
       ELSE lastSearch
  /\ IF name \in UnknownTools THEN Settle(TextResult(UnknownToolText(name)))
     ELSE IF json = "null" THEN Settle(Thrown)
     ELSE IF name = "transfer_to_human" THEN Settle(TransferAction)
     ELSE IF name = "register_return" THEN Await("fetching")
     ELSE IF name = "check_order_status" THEN Await("searching")
     ELSE IF hasEmail THEN Await("mailing")
     ELSE Settle(TextResult(Txt("no e-mail address on file")))
  /\ UNCHANGED <<toolOrder, eligibility, backendWrites, callerPhone, medRest,
                 sinkVars, phoneVars, hookVars, xmlVars, emVars, sessVars>>

\* executeRegisterReturn goes on to registerReturn
MayRegister_Always(e) == TRUE

MayRegister(e) == e.eligible

\* executeRegisterReturn: getOrder has answered
OrderFetched(how, order) ==
  /\ toolPc = "fetching"
  /\ IF how = "error"
       THEN /\ Settle(ObjectResult(Txt("return registration failed"), TRUE))
            /\ UNCHANGED <<toolOrder, eligibility, backendWrites>>
     ELSE IF how = "none"
       THEN /\ Settle(TextResult(Txt("no such order")))
            /\ UNCHANGED <<toolOrder, eligibility, backendWrites>>
     ELSE LET e == CheckReturnEligibility(order, toolArgs.reason,
                     toolArgs.condition, CalculateDaysSinceDelivery(order))
          IN /\ toolOrder' = order
             /\ eligibility' = e
             /\ IF ~MayRegister(e)
                  THEN /\ Settle(IF e.requiresHuman
                                   THEN ObjectResult(Txt(e.reason), TRUE)
                                   ELSE TextResult(Txt(e.reason)))
                       /\ UNCHANGED backendWrites
                  ELSE /\ backendWrites' = backendWrites + 1
                       /\ Await("registering")
  /\ UNCHANGED <<toolName, toolArgs, callerPhone, lastSearch, medRest,
                 sinkVars, phoneVars, hookVars, xmlVars, emVars, sessVars>>

\* executeRegisterReturn: the update request has answered
RegisterResponded(ok) ==
  /\ toolPc = "registering"
  /\ Settle(IF ok THEN TextResult(Txt("return accepted"))
                  ELSE ObjectResult(Txt("system error, connecting an agent"),
                                    TRUE))
  /\ UNCHANGED <<toolName, toolArgs, toolOrder, eligibility, backendWrites,
                 callerPhone, lastSearch, medRest, sinkVars, phoneVars,
                 hookVars, xmlVars, emVars, sessVars>>

\* executeCheckOrderStatus: searchOrders has answered
StatusSearchResponded(how) ==
  /\ toolPc = "searching"
  /\ Settle(TextResult(Txt(how)))
  /\ UNCHANGED <<toolName, toolArgs, toolOrder, eligibility, backendWrites,
                 callerPhone, lastSearch, medRest, sinkVars, phoneVars,
                 hookVars, xmlVars, emVars, sessVars>>

\* executeSendEmail: emailService.send has answered
MailResponded(ok) ==
  /\ toolPc = "mailing"
  /\ Settle(TextResult(Txt(IF ok THEN "e-mail sent" ELSE "e-mail failed")))
  /\ UNCHANGED <<toolName, toolArgs, toolOrder, eligibility, backendWrites,
                 callerPhone, lastSearch, medRest, sinkVars, phoneVars,
                 hookVars, xmlVars, emVars, sessVars>>

InitTools ==
  /\ \E ref \in {"null", "id"} : MedGreeted(ref)
  /\ ToolIdleFor(SamplePhone)
  /\ SinkIdle /\ PhoneIdle /\ HookIdle /\ XmlIdle /\ EmIdle /\ SessIdle

NextTools ==
  \/ /\ toolPc = "idle"
     /\ \E name \in ToolNames \cup UnknownTools,
           json \in {"object", "malformed", "null"},
           reason \in ReturnReasons \cup {"undefined"},
           condition \in ProductConditions \cup {"undefined"},
           order_id \in ArgOrderIds, phone_number \in ArgPhones,
           hasEmail \in BOOLEAN :
       ToolCallReceived(name, json, reason, condition, order_id,
                        phone_number, hasEmail)
  \/ \E how \in {"error", "none"} : OrderFetched(how, NoOrder)
  \/ \E order \in FetchedOrders : OrderFetched("order", order)
  \/ \E ok \in BOOLEAN : RegisterResponded(ok)
  \/ \E how \in {"orders listed", "no orders found", "search failed"} :
       StatusSearchResponded(how)
  \/ \E ok \in BOOLEAN : MailResponded(ok)
  \/ LlmClose
  \/ CarrierStop
  \/ CarrierClose

SpecTools == InitTools /\ [][NextTools]_vars

\* ---- the tools that search, for every caller number
SampleFetched ==
  {[found |-> TRUE, totalAmount |-> a, shipped |-> TRUE, diffDays |-> 2] :
     a \in {0, SampleAmount}}

InitSearch ==
  /\ \E ref \in {"null", "id"} : MedGreeted(ref)
  /\ \E phone \in CallerPhones : ToolIdleFor(phone)
  /\ SinkIdle /\ PhoneIdle /\ HookIdle /\ XmlIdle /\ EmIdle /\ SessIdle

NextSearch ==
  \/ /\ toolPc = "idle"
     /\ \E name \in {"check_order_status", "register_return"},
           json \in {"object", "malformed", "null"},
           reason \in {"defective", "other", "undefined"},
           condition \in ProductConditions \cup {"undefined"},
           order_id \in ArgOrderIds, phone_number \in ArgPhones :
       ToolCallReceived(name, json, reason, condition, order_id,
                        phone_number, FALSE)
  \/ \E how \in {"error", "none"} : OrderFetched(how, NoOrder)
  \/ \E order \in SampleFetched : OrderFetched("order", order)
  \/ \E ok \in BOOLEAN : RegisterResponded(ok)
  \/ \E how \in {"orders listed", "no orders found", "search failed"} :
       StatusSearchResponded(how)
  \/ LlmClose
  \/ CarrierStop
  \/ CarrierClose

SpecSearch == InitSearch /\ [][NextSearch]_vars

\* ============================================ carrier XML builders (C23)
XmlChars == {"&", "<", ">", "\"", "'", "a"}
XmlTexts == UNION {[1..k -> XmlChars] : k \in 0..MaxText}

RECURSIVE ReplaceAll(_, _, _)
ReplaceAll(text, c, entity) ==
  IF text = <<>> THEN <<>>
  ELSE (IF Head(text) = c THEN entity ELSE <<Head(text)>>)
       \o ReplaceAll(Tail(text), c, entity)

Amp == <<"&", "a", "m", "p", ";">>
Lt == <<"&", "l", "t", ";">>
Gt == <<"&", "g", "t", ";">>
Quot == <<"&", "q", "u", "o", "t", ";">>
Apos == <<"&", "a", "p", "o", "s", ";">>

\* escapeXml: five replacements, '&' first
EscapeXml(text) ==
  ReplaceAll(ReplaceAll(ReplaceAll(ReplaceAll(ReplaceAll(
    text, "&", Amp), "<", Lt), ">", Gt), "\"", Quot), "'", Apos)

Markup(name) == [injected |-> FALSE, chars |-> <<name>>]
Injected(chars) == [injected |-> TRUE, chars |-> chars]

\* `<Say>` only for a non-empty message
SayElement(message) ==
  IF message = <<>> THEN <<>>
  ELSE <<Markup("<Say>"), Injected(EscapeXml(message)), Markup("</Say>")>>

GenerateTransferTwiML(transferNumber, message) ==
  <<Markup("<Response>")>> \o SayElement(message)
  \o <<Markup("<Dial><Number>"), Injected(transferNumber),
       Markup("</Number></Dial></Response>")>>

GenerateHoldTwiML(message) ==
  <<Markup("<Response>")>> \o SayElement(message)
  \o <<Markup("<Play>"), Markup("</Play></Response>")>>

BuildTransfer ==
  /\ xmlPc = 0 /\ xmlBuilder = "transfer"
  /\ xmlPc' = 1
  /\ xmlOut' = GenerateTransferTwiML(xmlNumber, xmlMessage)
  /\ UNCHANGED <<xmlBuilder, xmlMessage, xmlNumber, medVars, sinkVars,
                 phoneVars, hookVars, toolVars, emVars, sessVars>>

BuildHold ==
  /\ xmlPc = 0 /\ xmlBuilder = "hold"
  /\ xmlPc' = 1
  /\ xmlOut' = GenerateHoldTwiML(xmlMessage)
  /\ UNCHANGED <<xmlBuilder, xmlMessage, xmlNumber, medVars, sinkVars,
                 phoneVars, hookVars, toolVars, emVars, sessVars>>

InitXml ==
  /\ MedIdle /\ SinkIdle /\ PhoneIdle /\ HookIdle /\ ToolIdle /\ EmIdle /\ SessIdle
  /\ xmlPc = 0
  /\ xmlBuilder \in {"transfer", "hold"}
  /\ xmlMessage \in XmlTexts
  /\ xmlNumber \in (IF xmlBuilder = "transfer" THEN XmlTexts ELSE {<<>>})
  /\ xmlOut = <<>>

NextXml == BuildTransfer \/ BuildHold

SpecXml == InitXml /\ [][NextXml]_vars

\* =================================== event subscriptions (on/off/emitEvent)
MaxSubs == 3
OneShots == {"oneShot"}           \* handlers that call off(event, self)
HandlerIds == OneShots \cup {"h1", "h2"}

EmOp(op, h) == [op |-> op, h |-> h]

\* handlers.indexOf(handler): 0 stands for -1
IndexOf(list, h) ==
  IF \E i \in DOMAIN list : list[i] = h
    THEN CHOOSE i \in DOMAIN list :
           list[i] = h /\ \A j \in 1..(i - 1) : list[j] # h
    ELSE 0

\* handlers.splice(index, 1)
Splice(list, index) ==
  SubSeq(list, 1, index - 1) \o SubSeq(list, index + 1, Len(list))

\* off(event, handler): the first occurrence is removed from the array
OffList(list, h) ==
  IF IndexOf(list, h) # 0 THEN Splice(list, IndexOf(list, h)) ELSE list

\* the array after handler h ran
AfterCall(list, h) == IF h \in OneShots THEN OffList(list, h) ELSE list

\* handlers.forEach: indices 1..len of the array as it is when each index
\* is reached; len is the length when the loop started
RECURSIVE ForEach(_, _, _, _)
ForEach(list, k, len, called) ==
  IF k > len THEN [subs |-> list, calls |-> called]
  ELSE IF k > Len(list) THEN ForEach(list, k + 1, len, called)
  ELSE ForEach(AfterCall(list, list[k]), k + 1, len, Append(called, list[k]))

Range(list) == {list[i] : i \in DOMAIN list}

EmFrame == UNCHANGED <<medVars, sinkVars, phoneVars, hookVars, toolVars,
                       xmlVars, sessVars>>

\* on(event, handler)
On(h) ==
  /\ Len(subs) < MaxSubs
  /\ subs' = Append(subs, h)
  /\ dropped' = dropped \ {h}
  /\ emOp' = EmOp("on", h)
  /\ UNCHANGED calls
  /\ EmFrame

\* off(event, handler)
Off(h) ==
  /\ subs' = OffList(subs, h)
  /\ dropped' = dropped \cup {h}
  /\ emOp' = EmOp("off", h)
  /\ UNCHANGED calls
  /\ EmFrame

\* emitEvent(event, data)
EmitEvent ==
  LET done == ForEach(subs, 1, Len(subs), <<>>)
  IN /\ subs' = done.subs
     /\ calls' = done.calls
     /\ dropped' = dropped \cup (Range(done.calls) \cap OneShots)
     /\ emOp' = EmOp("emit", "none")
     /\ EmFrame

InitEmitter ==
  MedIdle /\ SinkIdle /\ PhoneIdle /\ HookIdle /\ ToolIdle /\ XmlIdle /\ EmIdle /\ SessIdle

NextEmitter ==
  \/ \E h \in HandlerIds : On(h)
  \/ \E h \in HandlerIds : Off(h)
  \/ EmitEvent

SpecEmitter == InitEmitter /\ [][NextEmitter]_vars

\* ============================ sessions of one connection (repeated start)
SessFrame == UNCHANGED <<medVars, sinkVars, phoneVars, hookVars, toolVars,
                         xmlVars, emVars>>

HasSocket(n) == sessions[n].st \in {"connecting", "open"}

\* context.openaiSession.disconnect() on the handler's context
DisconnectContext ==
  IF handlerCtx # 0 /\ HasSocket(handlerCtx)
    THEN [sessions EXCEPT ![handlerCtx].st = "closed"]
    ELSE sessions

\* carrier 'start': initializeStream builds a context and awaits startCall;
\* nothing looks at an earlier context
SessStart(n) ==
  /\ carrier = "open"
  /\ sessions[n].st = "none"
  /\ \A m \in 1..(n - 1) : sessions[m].st # "none"
  /\ sessions' = [sessions EXCEPT ![n].st = "created"]
  /\ UNCHANGED <<handlerCtx, carrier>>
  /\ SessFrame

\* startCall settled: connect() creates the socket
SessConnect(n) ==
  /\ sessions[n].st = "created"
  /\ sessions' = [sessions EXCEPT ![n].st = "connecting"]
  /\ UNCHANGED <<handlerCtx, carrier>>
  /\ SessFrame

\* the socket opened
SessOpened(n) ==
  /\ sessions[n].st = "connecting"
  /\ sessions' = [sessions EXCEPT ![n].st = "open"]
  /\ UNCHANGED <<handlerCtx, carrier>>
  /\ SessFrame

\* the LLM side closed the socket, or connecting failed
SessLlmClose(n) ==
  /\ HasSocket(n)
  /\ sessions' = [sessions EXCEPT ![n].st = "closed"]
  /\ UNCHANGED <<handlerCtx, carrier>>
  /\ SessFrame

\* initializeStream returns (after the greeting or its catch) and the
\* 'start' case assigns the context
SessReturned(n) ==
  /\ sessions[n].st \in {"open", "closed"}
  /\ ~sessions[n].returned
  /\ sessions' = [sessions EXCEPT ![n].returned = TRUE]
  /\ handlerCtx' = n
  /\ UNCHANGED carrier
  /\ SessFrame

\* carrier 'stop'
SessStop ==
  /\ carrier = "open"
  /\ sessions' = DisconnectContext
  /\ UNCHANGED <<handlerCtx, carrier>>
  /\ SessFrame

\* carrier socket 'close'
SessClose ==
  /\ carrier = "open"
  /\ carrier' = "closed"
  /\ sessions' = DisconnectContext
  /\ UNCHANGED handlerCtx
  /\ SessFrame

InitSessions ==
  /\ MedIdle /\ SinkIdle /\ PhoneIdle /\ HookIdle /\ ToolIdle /\ XmlIdle
  /\ EmIdle /\ SessIdle

NextSessions ==
  \/ \E n \in 1..MaxStarts : SessStart(n)
  \/ \E n \in 1..MaxStarts : SessConnect(n)
  \/ \E n \in 1..MaxStarts : SessOpened(n)
  \/ \E n \in 1..MaxStarts : SessLlmClose(n)
  \/ \E n \in 1..MaxStarts : SessReturned(n)
  \/ SessStop
  \/ SessClose

SpecSessions == InitSessions /\ [][NextSessions]_vars

\* ======================================================== properties
Appends(s) == Sent(s, "llm", "input_audio_buffer.append")
Creates(s) == Sent(s, "llm", "response.create")
Cancels(s) == Sent(s, "llm", "response.cancel")
Clears(s) == Sent(s, "twilio", "clear")
TimerClears(s) == Sent(s, "timer", "clearTimeout")

\* C1 (P1, echo gate): a carrier media frame handled while echoCooldown is
\* true produces no input_audio_buffer.append to the LLM.
C1_EchoGate ==
  [][(lastEvent' = "media" /\ isEchoCooldown) => Appends(emitted') = 0]_vars

\* a frame arrived during the cooldown on an otherwise forwarding session
C1_Witness ==
  /\ lastEvent = "media" /\ isEchoCooldown
  /\ contextSet /\ IsConnected /\ isInitialized
  /\ emitted = <<>>

\* C2 (P6, tool completeness): whenever a response.create is sent, every
\* function call received so far has had its tool result sent; stated on
\* the turn that sends the response.create.
C2_ToolCompleteness ==
  Creates(emitted) > 0 => \A c \in CallIds : toolCalls[c] # "running"

\* C3: after a carrier 'stop' or a carrier socket close, in whatever phase
\* the call is, no greeting response.create is issued.
C3_NoGreetingAfterShutdown ==
  (lastEvent = "greeting" /\ (stopped \/ twilioWs = "closed"))
    => Creates(emitted) = 0

\* C4 (P4, barge-in) as stated: speech_started while responseActive sends
\* exactly one response.cancel and exactly one carrier clear.
C4_Original ==
  [][(lastEvent' = "speech_started" /\ isResponseActive)
       => (Cancels(emitted') = 1 /\ Clears(emitted') = 1)]_vars

\* C4 amended: speech_started while responseActive sends exactly one
\* response.cancel if the LLM session is connected (none otherwise) and
\* exactly one carrier clear if the carrier socket is open (none otherwise).
C4_BargeIn ==
  [][(lastEvent' = "speech_started" /\ isResponseActive)
       => /\ Cancels(emitted') = (IF IsConnected THEN 1 ELSE 0)
          /\ Clears(emitted') = (IF twilioWs = "open" THEN 1 ELSE 0)
          /\ Len(emitted') = Cancels(emitted') + Clears(emitted')]_vars

C4_Witness ==
  /\ lastEvent = "speech_started" /\ isResponseActive
  /\ Cancels(emitted) = 1 /\ Clears(emitted) = 1

\* C5 (P5, no barge-in when idle): speech_started while responseActive is
\* false sends neither a response.cancel nor a carrier clear.
C5_NoBargeInWhenIdle ==
  [][(lastEvent' = "speech_started" /\ ~isResponseActive)
       => (Cancels(emitted') = 0 /\ Clears(emitted') = 0)]_vars

C5_Witness ==
  /\ lastEvent = "speech_started" /\ ~isResponseActive
  /\ IsConnected /\ twilioWs = "open"

\* C6 (P2, cooldown arming): after an inbound mark 'audio-complete' exactly
\* one cooldown timer is pending, it has 400 ms left, echoCooldown is true
\* and the handle refers to it; at most one timer is pending in any state.
C6_CooldownArming ==
  /\ Cardinality(timers) <= 1
  /\ lastEvent = "mark"
       => /\ isEchoCooldown
          /\ timers = {[id |-> echoCooldownTimer, left |-> CooldownMs]}
          /\ echoCooldownTimer # NoTimer

\* a mark re-armed the cooldown while an earlier timer was still pending
C6_Witness ==
  /\ lastEvent = "mark" /\ TimerClears(emitted) = 1
  /\ Cardinality(timers) = 1

\* C7 (P3, delta preempts cooldown): a response.audio.delta handled while
\* echoCooldown is true leaves echoCooldown false, the handle null and no
\* timer callback pending.
C7_DeltaPreempts ==
  [][(lastEvent' = "response.audio.delta" /\ isEchoCooldown)
       => (~isEchoCooldown' /\ echoCooldownTimer' = NoTimer /\ timers' = {})]_vars

C7_Witness ==
  /\ lastEvent = "response.audio.delta" /\ TimerClears(emitted) = 1
  /\ ~isEchoCooldown /\ timers = {}

\* C8: a carrier media frame is forwarded to the LLM if and only if
\* echoCooldown is false and initialized is true.
C8_ForwardIff ==
  [][lastEvent' = "media"
       => (Appends(emitted') = 1 <=> (~isEchoCooldown /\ isInitialized))]_vars

\* C9: when the LLM socket closes mid-call the carrier socket is closed.
C9_LlmCloseClosesCarrier ==
  (lastEvent = "llm.close" /\ pc = "done" /\ ~stopped) => twilioWs = "closed"

\* C10: when connecting to the LLM fails the carrier socket is closed and
\* no greeting response.create is issued.
C10_ConnectFailureClosesCarrier ==
  /\ lastEvent = "llm.connect_error" => twilioWs = "closed"
  /\ pc = "failed" => ~llmStimulated

\* the call has ended: carrier stop, carrier close, or LLM close mid-call
CallEnded ==
  stopped \/ twilioWs = "closed" \/ (pc = "done" /\ readyState = "closed")

\* C11: once the call has ended (stop, carrier close or LLM close) and the
\* call has a transcript ref, EndCall has been invoked exactly once.
C11_EndCallOnce ==
  (CallEnded /\ historyCallId = "id") => endCalls = 1

\* C12: handling a carrier 'stop' or close leaves no cooldown timer armed,
\* and no cooldown callback runs after the shutdown.
C12_ShutdownCancelsCooldown ==
  /\ [][lastEvent' \in {"stop", "twilio.close"}
          => (timers' = {} /\ echoCooldownTimer' = NoTimer)]_vars
  /\ [][(stopped \/ twilioWs = "closed")
          => lastEvent' # "cooldown.expired"]_vars

\* C13 as stated: the greeting step, reached after the session wait and the
\* stabilization delay, issues the greeting response.create exactly once.
C13_Original ==
  lastEvent = "greeting" => Creates(emitted) = 1

\* C13 amended: once the session.update is sent, initializeStream eventually
\* reaches its greeting step; that step runs once, only after the session
\* wait was decided (isInitialized) and the 1.2 s delay elapsed, and issues
\* exactly one response.create if the LLM session is still connected and
\* none otherwise.
C13_GreetingOnce ==
  /\ (pc = "awaitSessionUpdated") ~> (pc = "done")
  /\ [][lastEvent' = "greeting"
          => /\ pc = "stabilizing" /\ pc' = "done"
             /\ initTimer = 0 /\ isInitialized
             /\ Creates(emitted') = (IF IsConnected THEN 1 ELSE 0)]_vars
  /\ [][pc = "awaitSessionUpdated" => pc' \in {"awaitSessionUpdated", "stabilizing"}]_vars
  /\ [][pc = "stabilizing" /\ pc' # pc => lastEvent' = "greeting"]_vars
  /\ [][pc = "done" => pc' = "done"]_vars

\* the greeting was requested on a connected session after the 3 s timeout
C13_Witness ==
  /\ lastEvent = "greeting" /\ Creates(emitted) = 1
  /\ updPending /\ pc = "done"

\* C14 (P7): the transcript entries (assistant, caller, tool) are stored in
\* the sink in the order in which the LLM events that caused them arrived.
C14_ArrivalOrder ==
  \A i, j \in DOMAIN stored : i < j => stored[i].n < stored[j].n

HasDash(s) == \E i \in DOMAIN s : s[i] = "-"

\* C19: normalizing a phone number twice gives the same string as
\* normalizing it once, for every input string.
C19_NormalizeIdempotent == phonePc = 2 => phoneOut2 = phoneOut

\* C20: normalize("+81" + rest) = "0" + rest; normalize("81" + rest) =
\* "0" + rest when the input has at least 11 characters; and the result
\* never contains a dash.
C20_NormalizeLaws ==
  phonePc >= 1 =>
    /\ StartsWith(phoneIn, <<"+", "8", "1">>)
         => phoneOut = <<"0">> \o Slice(phoneIn, 3)
    /\ (StartsWith(phoneIn, <<"8", "1">>) /\ Len(phoneIn) >= 11)
         => phoneOut = <<"0">> \o Slice(phoneIn, 2)
    /\ ~HasDash(phoneOut)

Refreshing == {c \in Callers : hookPc[c] = "refreshing"}

\* C15: token refresh is single-flight: at most one refresh request is in
\* flight at any time, however many callers found the token absent or
\* expired.
C15_SingleFlightRefresh == Cardinality(Refreshing) <= 1

\* C16: a request that failed because of authentication is retried once
\* after one token refresh: a lookup reported as failed on an auth error has
\* issued the search twice.
C16_AuthRetryOnce ==
  \A c \in Callers : lookupOutcome[c] = "auth_error" => attempts[c] = 2

Field(v, k) == v.f[k]

\* C17: identification failure is never fatal: whatever the outcome of the
\* lookup, the webhook replies with the stream XML; on a failure the
\* customerContext parameter decodes to found=false, error=true; zero
\* matches decode to found=false without error.
C17_LookupNeverFatal ==
  \A c \in Callers :
    lookupOutcome[c] # "none" =>
      /\ hookPc[c] \in {"replied", "streaming"}
      /\ reply[c].type = "text/xml"
      /\ LET ctx == DecodeContext(reply[c].customerContext)
         IN /\ lookupOutcome[c] \in SearchFailures \cup {"refresh_failed"}
                 => /\ Field(ctx, "found") = Bool(FALSE)
                    /\ Field(ctx, "error") = Bool(TRUE)
            /\ lookupOutcome[c] = "zero"
                 => /\ Field(ctx, "found") = Bool(FALSE)
                    /\ Field(ctx, "error") = Undefined
            /\ lookupOutcome[c] = "orders" => Field(ctx, "found") = Bool(TRUE)

\* both kinds of failure and a zero-match lookup have been answered
C17_Witness ==
  /\ lookupOutcome[1] = "refresh_failed" /\ hookPc[1] = "replied"
  /\ lookupOutcome[2] = "zero" /\ hookPc[2] = "replied"

TableDecision(reason, condition, totalAmount, days) ==
  IF totalAmount >= 10000 THEN <<FALSE, TRUE, "high value">>
  ELSE IF days > 7 THEN <<FALSE, TRUE, "expired">>
  ELSE IF reason \in {"defective", "damaged", "wrong_item"}
    THEN <<TRUE, FALSE, "seller pays">>
  ELSE IF condition = "opened" THEN <<FALSE, TRUE, "opened">>
  ELSE <<TRUE, FALSE, "buyer pays">>

Outcome(e) ==
  <<e.eligible, e.requiresHuman,
    CASE e.reason = "high value: an agent will handle it" -> "high value"
      [] e.reason = "more than 7 days since delivery" -> "expired"
      [] e.reason = "accepted, shipping paid by the seller" -> "seller pays"
      [] e.reason = "opened items cannot be returned" -> "opened"
      [] e.reason = "accepted, shipping paid by the buyer" -> "buyer pays"
      [] OTHER -> "none">>

\* C21: return eligibility is a total function that matches the decision
\* table with first-match priority: high value, then expired, then a
\* seller-fault reason, then opened, then eligible at the buyer's cost.
C21_EligibilityTable ==
  toolOrder.found =>
    Outcome(eligibility) =
      TableDecision(toolArgs.reason, toolArgs.condition, toolOrder.totalAmount,
                    CalculateDaysSinceDelivery(toolOrder))

\* an order of exactly 10000 was refused although its reason is a seller fault
C21_Witness ==
  /\ toolOrder.found /\ toolOrder.totalAmount = 10000
  /\ toolArgs.reason = "defective"
  /\ ~eligibility.eligible /\ eligibility.requiresHuman

ItemCreates(s) == Sent(s, "llm", "conversation.item.create")

Refused == toolOrder.found /\ ~eligibility.eligible

\* C22 as stated: the update request is issued only for an eligible order;
\* a refusal resolves to {success:false, requiresTransfer:true, message},
\* that message is sent to the LLM as the tool result and nothing is
\* written to the backend.
C22_Original ==
  /\ backendWrites > 0 => (toolOrder.found /\ eligibility.eligible)
  /\ (lastEvent = "tool.settled" /\ Refused)
       => /\ toolResult = ObjectResult(<<eligibility.reason, "">>, TRUE)
          /\ backendWrites = 0
          /\ ItemCreates(emitted) = 1

\* C22, amended: as above, the message being passed to sendToolResult once
\* and written to the LLM socket if the session is still connected.
C22_WriteOnlyWhenEligible ==
  /\ backendWrites > 0 => (toolOrder.found /\ eligibility.eligible)
  /\ backendWrites <= 1
  /\ (toolPc = "settled" /\ Refused)
       => /\ toolResult = ObjectResult(<<eligibility.reason, "">>, TRUE)
          /\ toolReplies = <<(<<eligibility.reason, "">>)>>
          /\ backendWrites = 0
  /\ (lastEvent = "tool.settled" /\ Refused)
       => ItemCreates(emitted) = (IF IsConnected THEN 1 ELSE 0)

\* a 15000 order was refused and the refusal went out to the LLM
C22_Witness ==
  /\ lastEvent = "tool.settled" /\ Refused
  /\ toolOrder.totalAmount = 15000
  /\ toolArgs.reason = "defective"
  /\ ItemCreates(emitted) = 1 /\ backendWrites = 0

ToolFailed == toolResult.kind = "thrown"
ToolUnknown == toolName \in UnknownTools

\* C24 as stated: an unknown tool name yields a text result naming the tool,
\* a thrown error yields exactly one generic system-error result sent to the
\* LLM for the call id, and neither disconnects the LLM session or closes
\* the carrier socket.
C24_Original ==
  (lastEvent = "tool.settled" /\ (ToolFailed \/ ToolUnknown))
    => /\ ItemCreates(emitted) = 1
       /\ ToolUnknown => toolReplies = <<(<<"unknown tool", toolName>>)>>
       /\ (ToolFailed /\ ~ToolUnknown)
            => toolReplies = <<(<<"a system error occurred", "">>)>>

\* C24, amended: the one result is written if the LLM session is still
\* connected; the turn that reports it changes neither connection.
C24_DispatcherErrors ==
  /\ []((toolPc = "settled" /\ ToolUnknown)
          => /\ toolResult.kind = "text"
             /\ toolReplies = <<(<<"unknown tool", toolName>>)>>)
  /\ []((toolPc = "settled" /\ ToolFailed)
          => toolReplies = <<(<<"a system error occurred", "">>)>>)
  /\ []((lastEvent = "tool.settled" /\ (ToolFailed \/ ToolUnknown))
          => ItemCreates(emitted) = (IF IsConnected THEN 1 ELSE 0))
  /\ [][lastEvent' = "tool.settled"
          => UNCHANGED <<ws, readyState, twilioWs, stopped>>]_vars

\* a tool threw on a live call and the generic text was sent
C24_Witness ==
  /\ lastEvent = "tool.settled" /\ ToolFailed
  /\ toolName = "register_return"
  /\ IsConnected /\ twilioWs = "open"
  /\ ItemCreates(emitted) = 1

XmlEntities ==
  {<<"&", "a", "m", "p", ";">>, <<"&", "l", "t", ";">>, <<"&", "g", "t", ";">>,
   <<"&", "q", "u", "o", "t", ";">>, <<"&", "a", "p", "o", "s", ";">>}

\* no raw < > " ' and every & opens one of the five entities
RECURSIVE WellEscaped(_)
WellEscaped(text) ==
  IF text = <<>> THEN TRUE
  ELSE IF Head(text) \in {"<", ">", "\"", "'"} THEN FALSE
  ELSE IF Head(text) = "&"
    THEN \E e \in XmlEntities :
           /\ Len(text) >= Len(e) /\ SubSeq(text, 1, Len(e)) = e
           /\ WellEscaped(SubSeq(text, Len(e) + 1, Len(text)))
  ELSE WellEscaped(Tail(text))

\* C23: every text value injected into generated carrier XML is escaped:
\* in the documents of the transfer and hold builders no injected value
\* (Say message, Dial number) shows an unescaped & < > " or '.
C23_InjectedEscaped ==
  \A i \in DOMAIN xmlOut : xmlOut[i].injected => WellEscaped(xmlOut[i].chars)

\* C25: an inbound error event with code response_cancel_not_active is
\* discarded, not delivered to the 'error' subscribers; every other inbound
\* error event is delivered to every 'error' subscriber.
C25_BenignErrorDiscarded ==
  /\ lastEvent = "response_cancel_not_active"
       => Sent(emitted, "subscriber", "response_cancel_not_active") = 0
  /\ lastEvent = "server_error"
       => Sent(emitted, "subscriber", "server_error") = 1

\* C26: a malformed carrier frame (unparseable JSON, or a media frame
\* without payload) is dropped: handling it writes nothing and leaves the
\* session state, the LLM connection and the carrier socket unchanged, and
\* the next media frame is forwarded exactly when the gate allows it.
C26_MalformedDropped ==
  /\ [][lastEvent' \in MalformedKinds
          => /\ emitted' = <<>>
             /\ UNCHANGED <<isInitialized, isResponseActive, isEchoCooldown,
                            echoCooldownTimer, timers, initTimer, pc,
                            contextSet, historyCallId, ws, readyState,
                            handlers, twilioWs, stopped, toolCalls>>]_vars
  /\ [][(lastEvent \in MalformedKinds /\ lastEvent' = "media")
          => Appends(emitted') = (IF MediaForwardGuard THEN 1 ELSE 0)]_vars

\* C27: transcript sink errors never propagate: a sink operation that
\* settles, stored or failed, leaves the mediator's state and writes as they
\* were; the turn that receives the StartCall result proceeds to connect the
\* same way with a ref or with null; and with a null transcriptRef no append
\* and no EndCall is ever attempted.
C27_SinkErrorsContained ==
  /\ [][inflight' # inflight /\ inflight' \subseteq inflight
          => UNCHANGED medVars]_vars
  /\ [][lastEvent' = "startCall.done"
          => /\ pc' = "connecting" /\ readyState' = "connecting"
             /\ emitted' = <<>>
             /\ UNCHANGED <<twilioWs, stopped, contextSet, isInitialized,
                            isResponseActive, isEchoCooldown, handlers>>]_vars
  /\ [](historyCallId = "null"
          => inflight = {} /\ stored = <<>> /\ endCalls = 0)

\* StartCall failed; transcripts arrived and the call was stopped since
C27_Witness ==
  /\ historyCallId = "null"
  /\ contextSet /\ stopped
  /\ arrivals >= 2
  /\ toolPending = {}
  /\ lastEvent = "stop"

\* C28: the mediator never waits for a sink operation: while the StartCall
\* request is unanswered the LLM connect has already been started, so a
\* sink that never answers cannot hold back the connect, the session update
\* or the greeting.
C28_NeverWaitsForSink == pc = "startCall" => ws = "set"

\* C29: handling response.created leaves responseActive true and handling
\* response.done leaves it false, whatever it was before; neither writes
\* anything, and a response.done received while responseActive is false
\* leaves the whole session state unchanged.
C29_ResponseActiveTracking ==
  [][/\ lastEvent' = "response.created"
          => isResponseActive' /\ emitted' = <<>>
     /\ lastEvent' = "response.done"
          => ~isResponseActive' /\ emitted' = <<>>
     /\ (lastEvent' = "response.done" /\ ~isResponseActive)
          => UNCHANGED <<isInitialized, isResponseActive, isEchoCooldown,
                         echoCooldownTimer, timers, initTimer, pc, contextSet,
                         historyCallId, ws, readyState, handlers, twilioWs,
                         stopped, marksPending, toolCalls>>]_vars

\* a response.done was handled on a running session
C29_Witness ==
  /\ lastEvent = "response.done"
  /\ ~isResponseActive
  /\ isInitialized /\ IsConnected
  /\ emitted = <<>>

\* C30: in every reachable state responseActive is true only if a
\* response.created was received from the LLM with no response.done after
\* it, so a speech_started that arrives before the LLM announced a response
\* triggers neither a cancel nor a clear.
C30_ActiveOnlyWhenAnnounced ==
  /\ isResponseActive => responseOpen
  /\ (lastEvent = "speech_started" /\ ~responseOpen)
       => Cancels(emitted) = 0 /\ Clears(emitted) = 0

\* C31: in every reachable state initialized is true only if the LLM has
\* acknowledged the session configuration: a session.updated was received
\* after the session.update was sent.
C31_InitializedOnlyWhenAcknowledged == isInitialized => ~updPending

Marks(s) == Sent(s, "twilio", "mark")

\* C32 as stated: handling response.audio.done sends one outbound mark and
\* leaves echoCooldown and the timer unchanged, and only an inbound carrier
\* mark sets echoCooldown to true.
C32_Original ==
  /\ [][lastEvent' = "response.audio.done"
          => /\ Marks(emitted') = 1
             /\ UNCHANGED <<isEchoCooldown, echoCooldownTimer, timers>>]_vars
  /\ [][(~isEchoCooldown /\ isEchoCooldown') => lastEvent' = "mark"]_vars

\* C32 (amended): handling response.audio.done sends one outbound mark if
\* the carrier socket is open and none otherwise, and leaves echoCooldown
\* and the timer unchanged; echoCooldown is set to true, and a cooldown
\* timer is started, only by the turn that handles an inbound carrier mark.
C32_CooldownArmedByMarkOnly ==
  /\ [][lastEvent' = "response.audio.done"
          => /\ Marks(emitted') = (IF twilioWs = "open" THEN 1 ELSE 0)
             /\ UNCHANGED <<isEchoCooldown, echoCooldownTimer, timers>>]_vars
  /\ [][(~isEchoCooldown /\ isEchoCooldown') => lastEvent' = "mark"]_vars
  /\ [][Sent(emitted', "timer", "setTimeout") > 0 => lastEvent' = "mark"]_vars

\* response.audio.done was handled with the carrier open and no cooldown
C32_Witness ==
  /\ lastEvent = "response.audio.done"
  /\ Marks(emitted) = 1
  /\ marksPending > 0
  /\ ~isEchoCooldown /\ echoCooldownTimer = NoTimer

\* C33: once the cooldown is armed it ends unless a further mark arrives:
\* echoCooldown becomes false with the timer slot empty, by the timer
\* callback or by a delta; on a connected, initialized session a caller
\* frame handled during the cooldown is dropped and one handled after it
\* is forwarded.
C33_CooldownExpiry ==
  /\ (isEchoCooldown /\ lastEvent # "mark")
       ~> \/ ~isEchoCooldown /\ echoCooldownTimer = NoTimer
          \/ lastEvent = "mark"
  /\ [][(isEchoCooldown /\ ~isEchoCooldown')
          => /\ lastEvent' \in {"cooldown.expired", "response.audio.delta"}
             /\ echoCooldownTimer' = NoTimer]_vars
  /\ [][lastEvent' = "cooldown.expired"
          => ~isEchoCooldown' /\ echoCooldownTimer' = NoTimer]_vars
  /\ [][(lastEvent' = "media" /\ contextSet /\ IsConnected /\ isInitialized)
          => Appends(emitted') = (IF isEchoCooldown THEN 0 ELSE 1)]_vars

\* the cooldown expired on a session that forwards caller audio again
C33_Witness ==
  /\ lastEvent = "cooldown.expired"
  /\ ~isEchoCooldown /\ echoCooldownTimer = NoTimer
  /\ MediaForwardGuard

\* C34: a tool execution that settles after the LLM session was
\* disconnected is detached: the settling turn writes nothing (no
\* conversation item, no response.create, no fallback to the carrier) and
\* changes no session state besides closing the call's own record.
C34_PendingToolDetached ==
  [][(lastEvent' = "tool.settled" /\ ws = "null")
       => /\ emitted' = <<>>
          /\ UNCHANGED <<twilioWs, stopped, pc, contextSet, isInitialized,
                         isResponseActive, isEchoCooldown, echoCooldownTimer,
                         timers, ws, readyState, llmStimulated>>]_vars

\* a tool call issued before the carrier's stop settled after it
C34_Witness ==
  /\ lastEvent = "tool.settled"
  /\ stopped /\ ws = "null"
  /\ \E c \in CallIds : toolCalls[c] = "done"
  /\ emitted = <<>>

\* C35: every order search a tool sends to the backend carries at least one
\* non-empty condition (a phone or an order id), and a call whose arguments
\* are malformed or empty leads to no backend write.
C35_SearchHasCondition ==
  /\ lastSearch.sent => Conditions(lastSearch) # {}
  /\ toolArgs.json \in {"malformed", "null"} => backendWrites = 0

\* C36: for the same caller number, the phone string check_order_status
\* sends to the backend when called with no arguments equals the normalized
\* phone string the webhook identification sent for that call.
C36_SamePhoneAsIdentification ==
  phonePc = 3 => statusPhone = NormalizePhoneForSearch(CallerOf(phoneIn))

Occurrences(list, h) == Cardinality({i \in DOMAIN list : list[i] = h})

\* C37: an emit invokes every handler subscribed at the start of the
\* dispatch exactly once, in registration order, also when a handler removes
\* itself during the dispatch; a handler passed to off is not invoked by a
\* later emit; and off(event, h) leaves the other handlers subscribed.
C37_DispatchUnderChanges ==
  /\ [][emOp'.op = "emit" => calls' = subs]_vars
  /\ [][emOp'.op = "emit" => Range(calls') \cap dropped = {}]_vars
  /\ [][emOp'.op = "off"
          => \A g \in HandlerIds \ {emOp'.h} :
               Occurrences(subs', g) = Occurrences(subs, g)]_vars

\* C38: in every reachable state echoCooldown is true if and only if a
\* cooldown timer is armed (echoCooldownTimer is not null).
C38_FlagIffTimer == isEchoCooldown <=> echoCooldownTimer # NoTimer

\* a delta pre-empted an armed cooldown
C38_Witness ==
  /\ lastEvent = "response.audio.delta"
  /\ TimerClears(emitted) = 1
  /\ ~isEchoCooldown /\ echoCooldownTimer = NoTimer

Live == {n \in 1..MaxStarts : sessions[n].st \in {"created", "connecting", "open"}}
Opened == {n \in 1..MaxStarts : sessions[n].st = "open"}
Settled == \A n \in 1..MaxStarts : sessions[n].st # "none" => sessions[n].returned

\* C39: per carrier connection at most one session state and at most one
\* open LLM session exist at any time, and once the connection has closed
\* and every initialization has returned, no LLM session of the connection
\* still has its socket.
C39_OneSessionPerConnection ==
  /\ Cardinality(Live) <= 1
  /\ Cardinality(Opened) <= 1
  /\ (carrier = "closed" /\ Settled) => \A n \in 1..MaxStarts : ~HasSocket(n)

====
